---- MODULE Spec2Model ----
(***************************************************************************)
(* A model of the aceru-checkout content pipeline: the Budget Guard, the   *)
(* budget-guarded LLM gateway (llm_json / llm_text), the row enrichment    *)
(* stage (generate_product_copy), the single-call stages (niche kit, ad    *)
(* creatives, seeding), the unguarded LLM callers (product optimizer and   *)
(* image ALT text), the slug functions that derive handles, and the table  *)
(* stages: the Schema Normalizer (build_shopify_csv), the Variant Expander *)
(* (pod_variants_builder) and the Merge stage (merge_images_into_products).*)
(*                                                                         *)
(* Money is counted in mills (1/1000 USD): 0.01 USD = 10, 0.015 USD = 15.  *)
(* A Python str is a sequence of atoms; an atom is one character, or one   *)
(* literal markup fragment of the fallback template.                       *)
(***************************************************************************)
EXTENDS Integers, Sequences, FiniteSets, TLC

VARIABLES
    total,      \* BudgetGuard.total
    spent,      \* BudgetGuard.spent
    est,        \* BudgetGuard.est
    lastCalls,  \* the argument of the latest reserve call (0: none yet)
    lastResult, \* "none" | "ok" | "BudgetExceeded": how the latest reserve call ended
    rejected1,  \* TRUE once a reserve(1) has been rejected in this run
    cmd,        \* the program / sub-command this run executes
    pc,         \* the position of the run
    batch,      \* the input rows of the run (the data frame read from the input CSV)
    idx,        \* 1-based index of the row being processed
    rows,       \* the output rows appended so far
    exc,        \* the exception in flight ("none" when there is none)
    data,       \* the parsed response the gateway returned for the current call
    content,    \* the raw response text of the current call
    requests,   \* chat-completion requests issued so far in this run
    sleeps,     \* throttle delays taken so far in this run
    reserved,   \* successful reservations so far in this run
    rejectedAt, \* index of the row whose reservation was first rejected (0: none)
    outcome,    \* "running" | "success" | "fatal": what __main__ printed
    report,     \* the budget figures <<spent, ceiling>> in the line __main__ printed (<<>>: none)
    client,     \* TRUE when the OpenAI client object was built (API key present)
    imgs,       \* image_seo_prep: number of image files discovered
    perProduct, \* image_seo_prep: --per-product, the cap of images per product
    imgI,       \* image_seo_prep: i, the images assigned so far
    s_in,       \* slug check: the title under test
    s_out,      \* slug check: <<>>, then the one record of results computed from s_in
    stage,      \* table stages: "shopify_csv" | "pod_variants" | "merge" ("none": no table stage runs)
    tpc,        \* table stages: the position of the run
    prod,       \* table stages: the product CSV file the stage reads
    images,     \* merge: the image rows CSV file
    file_urls,  \* merge: the file_urls CSV file (NoFile when it does not exist)
    axes,       \* pod_variants: the configured COLORS, SIZES and SKU_PREFIX
    filemap,    \* merge: the filename -> url pairs collected from file_urls
    tout,       \* table stages: the CSV file the stage has written (NoFile before)
    prev,       \* table stages: the file the previous run of the stage wrote
    passes,     \* table stages: completed runs before this one
    tidx,       \* table stages: 1-based index of the input row being processed
    trows,      \* table stages: the output rows collected so far (rows / merged_rows)
    texc,       \* table stages: the exception that reached __main__ ("none" when none)
    toutcome,   \* table stages: "running" | "success" | "fatal"
    texit,      \* table stages: the exit status of the process (-1 while it runs)
    tmissing,   \* merge: the columns the ValueError of ensure_cols names ({}: none)
    fs,         \* artifacts: for every path, who wrote the file last ("absent": no file)
    flast,      \* artifacts: the program that ran last ("none": none yet)
    fruns       \* artifacts: the number of program runs so far

budgetVars == <<total, spent, est, lastCalls, lastResult, rejected1>>
runVars == <<cmd, pc, batch, idx, rows, exc, data, content, requests, sleeps,
             reserved, rejectedAt, outcome, report, client, imgs, perProduct, imgI>>
slugVars == <<s_in, s_out>>
tableVars == <<stage, tpc, prod, images, file_urls, axes, filemap, tout, prev, passes,
               tidx, trows, texc, toutcome, texit, tmissing>>
flowVars == <<fs, flast, fruns>>
vars == <<budgetVars, runVars, slugVars, tableVars, flowVars>>

(***************************************************************************)
(* Bounds of the model.                                                    *)
(***************************************************************************)
MaxCeilingUnits == 7    \* guard check: ceilings 0, 5, ..., 5 * MaxCeilingUnits mills
MaxRunCeilingUnits == 4 \* pipeline runs: ceilings 0, 5, ..., 5 * MaxRunCeilingUnits mills
MaxImages == 2          \* image files discovered by image_seo_prep
MaxPerProduct == 2      \* largest --per-product tried
MaxCallCount == 3       \* reserve(callCount) is tried with callCount in 1..MaxCallCount
MaxRows == 2            \* rows in an input batch
MaxSlugLen == 3         \* atoms in a title given to the slug functions
MaxStageRuns == 5       \* program runs in a sequence of runs over the artifact files

(***************************************************************************)
(* Program constants.                                                      *)
(***************************************************************************)
EST_COST_PER_CALL == 10
SEED_EST_COST_PER_CALL == 15
TITLE_MAX == 70

Ceilings == {5 * k : k \in 0..MaxCeilingUnits}
RunCeilings == {5 * k : k \in 0..MaxRunCeilingUnits}
Estimates == {EST_COST_PER_CALL, SEED_EST_COST_PER_CALL}

(***************************************************************************)
(* Python str operations, on sequences of atoms.                           *)
(***************************************************************************)
IsSpace(c) == c \in {" ", "\t"}

LowerAtom(c) ==
    CASE c = "A" -> "a"
      [] c = "B" -> "b"
      [] c = "D" -> "d"
      [] c = "M" -> "m"
      [] OTHER -> c

IsSlugAtom(c) == c \in {"a", "b", "d", "m", "e", "s", "k", "t", "i", "x", "0", "1", "2"}

Lower(s) == [i \in 1..Len(s) |-> LowerAtom(s[i])]

Take(s, n) == IF Len(s) <= n THEN s ELSE SubSeq(s, 1, n)

\* s from its first atom that is no whitespace
LStrip(s) ==
    IF \A i \in 1..Len(s) : IsSpace(s[i]) THEN <<>>
    ELSE SubSeq(s, CHOOSE i \in 1..Len(s) :
                       ~IsSpace(s[i]) /\ \A j \in 1..(i - 1) : IsSpace(s[j]),
                Len(s))

\* s up to its last atom that is no whitespace
RStrip(s) ==
    IF \A i \in 1..Len(s) : IsSpace(s[i]) THEN <<>>
    ELSE SubSeq(s, 1,
                CHOOSE i \in 1..Len(s) :
                    ~IsSpace(s[i]) /\ \A j \in (i + 1)..Len(s) : IsSpace(s[j]))

Strip(s) == RStrip(LStrip(s))

\* str.split(sep) for a one-atom separator: k separators give k + 1 pieces
RECURSIVE SplitOn(_, _)
SplitOn(s, sep) ==
    IF \A i \in 1..Len(s) : s[i] # sep
    THEN <<s>>
    ELSE LET p == CHOOSE i \in 1..Len(s) :
                      s[i] = sep /\ \A j \in 1..(i - 1) : s[j] # sep
         IN <<SubSeq(s, 1, p - 1)>> \o SplitOn(SubSeq(s, p + 1, Len(s)), sep)

\* str.split() without argument: the maximal runs of non-whitespace atoms
RECURSIVE SplitWs(_)
SplitWs(s) ==
    LET t == LStrip(s) IN
    IF t = <<>>
    THEN <<>>
    ELSE LET n == IF \E i \in 1..Len(t) : IsSpace(t[i])
                  THEN (CHOOSE i \in 1..Len(t) :
                            IsSpace(t[i]) /\ \A j \in 1..(i - 1) : ~IsSpace(t[j])) - 1
                  ELSE Len(t)
         IN <<SubSeq(t, 1, n)>> \o SplitWs(SubSeq(t, n + 1, Len(t)))

\* sep.join(parts)
RECURSIVE Join(_, _)
Join(sep, parts) ==
    IF parts = <<>> THEN <<>>
    ELSE IF Len(parts) = 1 THEN parts[1]
    ELSE parts[1] \o sep \o Join(sep, Tail(parts))

(***************************************************************************)
(* The Budget Guard: ecom_agents.BudgetGuard.check_and_book and            *)
(* seed_from_kit.BudgetGuard.book.  The result says whether the call       *)
(* raised and what self.spent is afterwards.                               *)
(***************************************************************************)
check_and_book_nocheck(sp, e, tot, calls) ==
    [raised |-> FALSE, spent |-> sp + e * calls]

check_and_book_commit_first(sp, e, tot, calls) ==
    LET projected == sp + e * calls IN
    [raised |-> projected > tot, spent |-> projected]

check_and_book_no_commit(sp, e, tot, calls) ==
    LET projected == sp + e * calls IN
    [raised |-> projected > tot, spent |-> sp]

check_and_book_strict(sp, e, tot, calls) ==
    LET projected == sp + e * calls IN
    IF projected >= tot
    THEN [raised |-> TRUE, spent |-> sp]
    ELSE [raised |-> FALSE, spent |-> projected]

check_and_book(sp, e, tot, calls) ==
    LET projected == sp + e * calls IN
    IF projected > tot
    THEN [raised |-> TRUE, spent |-> sp]
    ELSE [raised |-> FALSE, spent |-> projected]

book(sp, e, tot, n) ==
    LET nxt == sp + e * n IN
    IF nxt > tot
    THEN [raised |-> TRUE, spent |-> sp]
    ELSE [raised |-> FALSE, spent |-> nxt]

\* the guard of the module the run executes
reserve(c, sp, e, tot, n) ==
    IF c = "seed_from_kit" THEN book(sp, e, tot, n) ELSE check_and_book(sp, e, tot, n)

(***************************************************************************)
(* Input data.  A catalog row is a row of inputs/products.csv with its     *)
(* cells as text; RowBare is a row of a file that has none of the optional *)
(* columns, so every r.get(...) yields its default.  Cells that pandas     *)
(* reads as numbers or as NaN (an empty cell) are not among the inputs.    *)
(***************************************************************************)
LongTitle == <<" ">> \o [i \in 1..(TITLE_MAX + 1) |-> "x"] \o <<" ">>

RowMat ==
    [title |-> <<"D", "e", "s", "k", " ", "M", "a", "t">>,
     features |-> <<"a", ",", " ", "b">>,
     materials |-> <<"m">>,
     tags |-> <<"t", "a">>,
     price |-> <<"1">>,
     sku |-> <<"s", "1">>]

RowLong ==
    [title |-> LongTitle,
     features |-> <<" ", "a", " ", ",", ",", " ", "b", ",", " ">>,
     materials |-> <<" ", "m", " ">>,
     tags |-> <<" ", "t", " ">>,
     price |-> <<"2">>,
     sku |-> <<" ", "s", "2">>]

RowBare ==
    [title |-> <<>>, features |-> <<>>, materials |-> <<>>, tags |-> <<>>,
     price |-> <<"1", "9", ".", "9", "9">>, sku |-> <<>>]

CatalogRows == {RowMat, RowLong, RowBare}

Batches(S) == UNION {[1..n -> S] : n \in 0..MaxRows}

(***************************************************************************)
(* A JSON value of a response: t is its type ("missing": the key is        *)
(* absent; "badlist": a list holding a non-string), s its text when a      *)
(* string, l its items when a list of strings.                             *)
(***************************************************************************)
JStr(x) == [t |-> "str", s |-> x, l |-> <<>>]
JList(x) == [t |-> "list", s |-> <<>>, l |-> x]
JNull == [t |-> "null", s |-> <<>>, l |-> <<>>]
JMissing == [t |-> "missing", s |-> <<>>, l |-> <<>>]
JBadList == [t |-> "badlist", s |-> <<>>, l |-> <<>>]

NoData == [title_seo |-> JMissing, body_html |-> JMissing, tags |-> JMissing]

DataOk ==
    [title_seo |-> JStr(<<"M", "a", "t">>),
     body_html |-> JStr(<<"<p>", "b", "</p>">>),
     tags |-> JList(<< <<"a">>, <<"b", "-", "1">> >>)]

DataLong ==
    [title_seo |-> JStr([i \in 1..(TITLE_MAX + 2) |-> "y"]),
     body_html |-> JStr(<<"b">>),
     tags |-> JStr(<<"a", ",", "b">>)]

DataNullTitle ==
    [title_seo |-> JNull, body_html |-> JStr(<<"b">>), tags |-> JList(<< <<"a">> >>)]

DataBadTags ==
    [title_seo |-> JStr(<<"M", "a", "t">>), body_html |-> JStr(<<"b">>), tags |-> JBadList]

DataObjects == {DataOk, DataLong, NoData, DataNullTitle, DataBadTags}

\* The raw text of a response, as tokens: "{" and "}" are the braces, "m" is
\* the text of the members of the object obj, "x" is a character that is no
\* JSON (prose around the object), " " is white space.  Responses that are
\* JSON values other than an object are not among the inputs.
JsonText == <<"{", "m", "}">>

RawTexts ==
    {<<" ", "{", "m", "}", " ">>,          \* an object with white space around it
     <<"x", " ">> \o JsonText \o <<"x">>,  \* an object wrapped in prose
     <<"x">>,                               \* prose only
     <<"{", "m">>,                          \* an object cut off before its end
     <<"m", "}">>,                          \* no opening brace
     <<"}", "x", "{">>,                     \* the last "}" before the first "{"
     JsonText \o JsonText}                  \* two objects in a row

Contents ==
    {[raw |-> JsonText, obj |-> d] : d \in DataObjects}
        \cup {[raw |-> t, obj |-> DataOk] : t \in RawTexts}

NoContent == [raw |-> <<"(none)">>, obj |-> NoData]

\* what client.chat.completions.create can raise
ProviderErrors == {"Timeout", "RateLimited"}

\* str.find and str.rfind: the 0-based index of the first / last c, or -1
py_find(t, c) ==
    IF \E i \in 1..Len(t) : t[i] = c
    THEN (CHOOSE i \in 1..Len(t) : t[i] = c /\ \A j \in 1..(i - 1) : t[j] # c) - 1
    ELSE -1

py_rfind(t, c) ==
    IF \E i \in 1..Len(t) : t[i] = c
    THEN (CHOOSE i \in 1..Len(t) : t[i] = c /\ \A j \in (i + 1)..Len(t) : t[j] # c) - 1
    ELSE -1

\* t[a:b]: a negative index counts from the end, and both are clipped to the text
py_slice(t, a, b) ==
    LET clip(k) == IF k < 0 THEN (IF k + Len(t) < 0 THEN 0 ELSE k + Len(t))
                   ELSE IF k > Len(t) THEN Len(t) ELSE k
    IN IF clip(a) >= clip(b) THEN <<>> ELSE SubSeq(t, clip(a) + 1, clip(b))

\* the decoder of json.loads on a text t whose members denote obj: white space
\* around the value is skipped; anything but one object raises JSONDecodeError
json_decode(t, obj) ==
    IF Strip(t) = JsonText THEN [raised |-> FALSE, obj |-> obj]
    ELSE IF Strip(t) = <<"{", "}">>
    THEN [raised |-> FALSE, obj |-> [k \in DOMAIN obj |-> JMissing]]
    ELSE [raised |-> TRUE, obj |-> [k \in DOMAIN obj |-> JMissing]]

\* llm_json: json.loads(resp.choices[0].message.content), and nothing else
json_loads(c) == json_decode(c.raw, c.obj)

(***************************************************************************)
(* Row enrichment: generate_product_copy.                                  *)
(***************************************************************************)
FB_HEAD == <<"<h3>Highlights</h3><ul>">>
FB_MID == <<"</ul><h3>Details</h3><p>">>
FB_TAIL == <<"</p><h3>Shipping & Returns</h3><p>30-day returns. Tracked shipping.</p>">>
DEFAULT_VENDOR == <<"Aceru Studio">>

\* the fields of a row as the loop body reads them
read_row(r) ==
    [title |-> Strip(r.title),
     features |-> Strip(r.features),
     materials |-> Strip(r.materials),
     price |-> r.price,
     sku |-> Strip(r.sku),
     base_tags |-> Strip(r.tags)]

\* the dict appended to rows
out_row(f, out_title, body_html, tag_str) ==
    [Title |-> out_title,
     Body |-> body_html,
     Vendor |-> DEFAULT_VENDOR,
     Tags |-> tag_str,
     VariantSKU |-> f.sku,
     VariantPrice |-> f.price,
     Status |-> <<"active">>]

\* "".join(f"<li>{x.strip()}</li>" for x in features.split(",") if x.strip())
RECURSIVE bullets(_)
bullets(items) ==
    IF items = <<>> THEN <<>>
    ELSE (IF Strip(Head(items)) # <<>>
          THEN <<"<li>">> \o Strip(Head(items)) \o <<"</li>">>
          ELSE <<>>) \o bullets(Tail(items))

RECURSIVE bullets_keep_blank(_)
bullets_keep_blank(items) ==
    IF items = <<>> THEN <<>>
    ELSE <<"<li>">> \o Strip(Head(items)) \o <<"</li>">> \o bullets_keep_blank(Tail(items))

\* the except branch: the deterministic fallback
copy_fallback_keep_blank(r) ==
    LET f == read_row(r) IN
    out_row(f,
            Take(f.title, TITLE_MAX),
            FB_HEAD \o bullets_keep_blank(SplitOn(f.features, ",")) \o FB_MID
                \o f.materials \o FB_TAIL,
            f.base_tags)

copy_fallback(r) ==
    LET f == read_row(r) IN
    out_row(f,
            Take(f.title, TITLE_MAX),
            FB_HEAD \o bullets(SplitOn(f.features, ",")) \o FB_MID \o f.materials \o FB_TAIL,
            f.base_tags)

\* the try branch after llm_json returned d: it raises TypeError when title_seo
\* is no string or a tag is no string, and the except branch then takes over
copy_adopt_raises(d) ==
    d.title_seo.t \notin {"str", "missing"} \/ d.tags.t = "badlist"

copy_adopt_no_truncate(r, d) ==
    LET f == read_row(r) IN
    out_row(f,
            IF d.title_seo.t = "missing" THEN f.title ELSE d.title_seo.s,
            d.body_html.s,
            IF d.tags.t \in {"list", "missing"}
            THEN Join(<<",", " ">>, d.tags.l)
            ELSE f.base_tags)

copy_adopt(r, d) ==
    LET f == read_row(r) IN
    out_row(f,
            Take(IF d.title_seo.t = "missing" THEN f.title ELSE d.title_seo.s, TITLE_MAX),
            d.body_html.s,
            IF d.tags.t \in {"list", "missing"}
            THEN Join(<<",", " ">>, d.tags.l)
            ELSE f.base_tags)

(***************************************************************************)
(* Slug functions: build_shopify_csv.slug, pod_variants_builder.slug,      *)
(* product_optimizer_agent.make_handle, image_seo_prep.slug and the handle *)
(* expression of image_seo_prep.main.                                      *)
(***************************************************************************)
shopify_slug(s) == Join(<<"-">>, SplitWs(Strip(Lower(s))))

pod_slug(s) == Join(<<"-">>, SplitWs(Strip(Lower(s))))

make_handle(title) == Join(<<"-">>, SplitWs(Strip(Lower(title))))

image_handle_keep_case(title) == Join(<<"-">>, SplitWs(title))

image_handle(title) == Join(<<"-">>, SplitWs(Lower(title)))

IsHyphen(c) == c = "-"

Dropped(c) == c = "(dropped)"

\* re.sub(r"[^a-z0-9]+", "-", s): each maximal run of other atoms becomes one "-"
sub_non_alnum(s) ==
    SelectSeq([i \in 1..Len(s) |->
                  IF IsSlugAtom(s[i]) THEN s[i]
                  ELSE IF i > 1 /\ ~IsSlugAtom(s[i - 1]) THEN "(dropped)"
                  ELSE "-"],
              LAMBDA c : ~Dropped(c))

\* re.sub(r"-{2,}", "-", s): each run of two or more "-" becomes one "-"
sub_hyphen_runs(s) ==
    SelectSeq([i \in 1..Len(s) |->
                  IF s[i] = "-" /\ i > 1 /\ s[i - 1] = "-" THEN "(dropped)" ELSE s[i]],
              LAMBDA c : ~Dropped(c))

\* str.strip("-")
strip_hyphens(s) ==
    IF \A i \in 1..Len(s) : IsHyphen(s[i]) THEN <<>>
    ELSE SubSeq(s,
                CHOOSE i \in 1..Len(s) :
                    ~IsHyphen(s[i]) /\ \A j \in 1..(i - 1) : IsHyphen(s[j]),
                CHOOSE i \in 1..Len(s) :
                    ~IsHyphen(s[i]) /\ \A j \in (i + 1)..Len(s) : IsHyphen(s[j]))

image_slug(s) ==
    LET r == strip_hyphens(sub_hyphen_runs(sub_non_alnum(Strip(Lower(s))))) IN
    IF r = <<>> THEN <<"i", "t", "e", "m">> ELSE r

(***************************************************************************)
(* CSV files and data frames.  A CSV file is a header and rows of text     *)
(* cells; pd.read_csv turns it into a data frame whose empty cells (and    *)
(* cells spelling a missing value, such as "nan") are NaN; DataFrame.to_csv*)
(* writes NaN as an empty cell.  Numbers and booleans are text of one atom *)
(* (the reformatting of a number by a read and a write is not modelled).   *)
(***************************************************************************)
Range(s) == {s[i] : i \in 1..Len(s)}

NaN == <<"(NaN)">>

IsNA(x) == x \in {<<>>, <<"n", "a", "n">>}

\* str(x) of a cell of a data frame
py_str(x) == IF x = NaN THEN <<"n", "a", "n">> ELSE x

File(cols, rws) == [exists |-> TRUE, cols |-> cols, rows |-> rws]

NoFile == [exists |-> FALSE, cols |-> <<>>, rows |-> <<>>]

read_csv(f) ==
    [cols |-> f.cols,
     rows |-> [i \in 1..Len(f.rows) |->
                  [c \in Range(f.cols) |->
                      IF IsNA(f.rows[i][c]) THEN NaN ELSE f.rows[i][c]]]]

to_csv(df) ==
    File(df.cols,
         [i \in 1..Len(df.rows) |->
             [c \in Range(df.cols) |->
                 IF df.rows[i][c] = NaN THEN <<>> ELSE df.rows[i][c]]])

\* the file without column c
DropCol(f, c) ==
    File(SelectSeq(f.cols, LAMBDA x : x # c),
         [i \in 1..Len(f.rows) |-> [x \in Range(f.cols) \ {c} |-> f.rows[i][x]]])

\* the columns of outputs/product_copy.csv, in the order of the dict
copy_columns ==
    <<"Title", "Body (HTML)", "Vendor", "Type", "Tags", "Published", "Option1 Name",
      "Option1 Value", "Variant SKU", "Variant Price", "Variant Inventory Qty",
      "Variant Inventory Policy", "Variant Fulfillment Service",
      "Variant Requires Shipping", "Variant Taxable", "Image Src", "Variant Grams",
      "Cost per item", "Status">>

\* the row of outputs/product_copy.csv written for the enriched row p
copy_csv_row(p) ==
    [c \in Range(copy_columns) |->
        CASE c = "Title" -> p.Title
          [] c = "Body (HTML)" -> p.Body
          [] c = "Vendor" -> p.Vendor
          [] c = "Tags" -> p.Tags
          [] c \in {"Published", "Variant Requires Shipping", "Variant Taxable"} -> <<"True">>
          [] c = "Option1 Name" -> <<"Title">>
          [] c = "Option1 Value" -> <<"Default Title">>
          [] c = "Variant SKU" -> p.VariantSKU
          [] c = "Variant Price" -> p.VariantPrice
          [] c = "Variant Inventory Qty" -> <<"10">>
          [] c = "Variant Inventory Policy" -> <<"deny">>
          [] c = "Variant Fulfillment Service" -> <<"manual">>
          [] c = "Status" -> p.Status
          [] OTHER -> <<>>]

\* outputs/product_copy.csv for a batch of enriched rows
product_copy_csv(b) == File(copy_columns, [i \in 1..Len(b) |-> copy_csv_row(b[i])])

(***************************************************************************)
(* The Schema Normalizer: build_shopify_csv.                               *)
(***************************************************************************)
SEO_TITLE_MAX == 70
SEO_DESC_MAX == 140
DEFAULT_PRICE == <<"19.99">>

required ==
    <<"Handle", "Title", "Body (HTML)", "Vendor", "Type", "Tags", "Published",
      "Option1 Name", "Option1 Value", "Variant SKU", "Variant Grams",
      "Variant Inventory Tracker", "Variant Inventory Qty", "Variant Inventory Policy",
      "Variant Fulfillment Service", "Variant Price", "Variant Compare At Price",
      "Variant Requires Shipping", "Variant Taxable", "Image Src", "Image Position",
      "Gift Card", "SEO Title", "SEO Description", "Status">>

\* the second argument of each df.get(column, default)
shopify_default(c) ==
    CASE c = "Vendor" -> DEFAULT_VENDOR
      [] c \in {"Published", "Variant Requires Shipping", "Variant Taxable"} -> <<"True">>
      [] c = "Option1 Name" -> <<"Title">>
      [] c = "Option1 Value" -> <<"Default Title">>
      [] c = "Variant Inventory Qty" -> <<"10">>
      [] c = "Variant Inventory Policy" -> <<"deny">>
      [] c = "Variant Fulfillment Service" -> <<"manual">>
      [] c = "Variant Price" -> DEFAULT_PRICE
      [] c = "Status" -> <<"active">>
      [] OTHER -> <<>>

\* the columns assigned a constant, whatever the input holds
FixedColumns ==
    {"Variant Inventory Tracker", "Variant Compare At Price", "Image Position", "Gift Card"}

\* Series.str[:n]: NaN stays NaN
str_slice(x, n) == IF x = NaN THEN NaN ELSE Take(x, n)

\* "High-quality " + Series: NaN stays NaN
str_prefix(p, x) == IF x = NaN THEN NaN ELSE p \o x

\* the output row for the row r of the data frame df
shopify_row_reprefix(df, r) ==
    [c \in Range(required) |->
        CASE c = "Title" -> r["Title"]
          [] c = "Handle" -> shopify_slug(py_str(r["Title"]))
          [] c = "Body (HTML)" -> r["Body (HTML)"]
          [] c = "SEO Title" -> str_slice(r["Title"], SEO_TITLE_MAX)
          [] c = "SEO Description" ->
                 str_prefix(<<"High-quality ">>,
                            IF "SEO Description" \in Range(df.cols)
                            THEN r["SEO Description"]
                            ELSE str_slice(r["Title"], SEO_DESC_MAX))
          [] c \in FixedColumns -> IF c = "Gift Card" THEN <<"FALSE">> ELSE <<>>
          [] OTHER -> IF c \in Range(df.cols) THEN r[c] ELSE shopify_default(c)]

shopify_row(df, r) ==
    [c \in Range(required) |->
        CASE c = "Title" -> r["Title"]
          [] c = "Handle" -> shopify_slug(py_str(r["Title"]))
          [] c = "Body (HTML)" -> r["Body (HTML)"]
          [] c = "SEO Title" -> str_slice(r["Title"], SEO_TITLE_MAX)
          [] c = "SEO Description" ->
                 str_prefix(<<"High-quality ">>, str_slice(r["Title"], SEO_DESC_MAX))
          [] c \in FixedColumns -> IF c = "Gift Card" THEN <<"FALSE">> ELSE <<>>
          [] OTHER -> IF c \in Range(df.cols) THEN r[c] ELSE shopify_default(c)]

\* build_shopify_csv on the data frame df: df["Title"] and df["Body (HTML)"]
\* raise KeyError when the column is absent; Series.str raises AttributeError
\* on a column that holds no text (all of its cells NaN)
build_shopify_csv(df) ==
    IF "Title" \notin Range(df.cols) \/ "Body (HTML)" \notin Range(df.cols)
    THEN [raised |-> "KeyError", df |-> [cols |-> <<>>, rows |-> <<>>]]
    ELSE IF df.rows # <<>> /\ \A i \in 1..Len(df.rows) : df.rows[i]["Title"] = NaN
    THEN [raised |-> "AttributeError", df |-> [cols |-> <<>>, rows |-> <<>>]]
    ELSE [raised |-> "none",
          df |-> [cols |-> required,
                  rows |-> [i \in 1..Len(df.rows) |-> shopify_row(df, df.rows[i])]]]

(***************************************************************************)
(* The Variant Expander: pod_variants_builder.                             *)
(***************************************************************************)
SIZES == << <<"S">>, <<"M">>, <<"L">>, <<"X", "L">>, <<"2", "X", "L">> >>
COLORS == << <<"b", "l", "a", "c", "k">>, <<"w", "h", "i", "t", "e">>, <<"n", "a", "v", "y">> >>
SKU_PREFIX == <<"T", "E", "E">>
HQ_LEN == 13

\* the configuration of the module as shipped, and the two-by-two configuration
DefaultAxes == [colors |-> COLORS, sizes |-> SIZES, prefix |-> SKU_PREFIX]
SmallAxes ==
    [colors |-> SubSeq(COLORS, 1, 2), sizes |-> SubSeq(SIZES, 1, 2), prefix |-> SKU_PREFIX]

UpperAtom(c) ==
    CASE c = "b" -> "B"
      [] c = "w" -> "W"
      [] c = "n" -> "N"
      [] OTHER -> c

\* PRICE_BY_SIZE.get(size, fallback)
price_by_size(size, fallback) ==
    CASE size \in {<<"S">>, <<"M">>, <<"L">>} -> <<"24.90">>
      [] size \in {<<"X", "L">>, <<"2", "X", "L">>} -> <<"26.90">>
      [] OTHER -> fallback

pod_columns ==
    <<"Handle", "Title", "Body (HTML)", "Vendor", "Type", "Tags", "Published",
      "Option1 Name", "Option1 Value", "Option2 Name", "Option2 Value", "Variant SKU",
      "Variant Grams", "Variant Inventory Tracker", "Variant Inventory Qty",
      "Variant Inventory Policy", "Variant Fulfillment Service", "Variant Price",
      "Variant Compare At Price", "Variant Requires Shipping", "Variant Taxable",
      "Image Src", "Image Position", "Gift Card", "SEO Title", "SEO Description", "Status">>

\* f"{SKU_PREFIX}-{color[:1].upper()}{size}"
variant_sku(ax, color, size) ==
    ax.prefix \o <<"-">> \o [i \in 1..Len(Take(color, 1)) |-> UpperAtom(color[i])] \o size

axis_pair_sizes_outermost(ax, k) ==
    [color |-> ax.colors[((k - 1) % Len(ax.colors)) + 1],
     size |-> ax.sizes[((k - 1) \div Len(ax.colors)) + 1]]

\* itertools.product(COLORS, SIZES): the k-th pair, the first axis outermost
axis_pair(ax, k) ==
    [color |-> ax.colors[((k - 1) \div Len(ax.sizes)) + 1],
     size |-> ax.sizes[((k - 1) % Len(ax.sizes)) + 1]]

\* r.get(column, default) on a row of the data frame df
row_get(df, r, c, default) == IF c \in Range(df.cols) THEN r[c] ELSE default

\* the dict appended for one (color, size) pair of the base row r
variant_row_all_shared(df, r, ax, color, size, first) ==
    LET title == py_str(r["Title"]) IN
    [c \in Range(pod_columns) |->
        CASE c = "Handle" -> pod_slug(title)
          [] c = "Title" -> title
          [] c = "Body (HTML)" -> r["Body (HTML)"]
          [] c = "Vendor" -> row_get(df, r, "Vendor", <<"Aceru Studio">>)
          [] c = "Type" -> <<"t-shirt">>
          [] c = "Tags" -> row_get(df, r, "Tags", <<>>)
          [] c = "Published" -> <<"True">>
          [] c = "Option1 Name" -> <<"Color">>
          [] c = "Option1 Value" -> color
          [] c = "Option2 Name" -> <<"Size">>
          [] c = "Option2 Value" -> size
          [] c = "Variant SKU" -> variant_sku(ax, color, size)
          [] c = "Variant Inventory Qty" -> <<"20">>
          [] c = "Variant Inventory Policy" -> <<"deny">>
          [] c = "Variant Fulfillment Service" -> <<"manual">>
          [] c = "Variant Price" ->
                 price_by_size(size, row_get(df, r, "Variant Price", <<"24.90">>))
          [] c \in {"Variant Requires Shipping", "Variant Taxable"} -> <<"True">>
          [] c = "Gift Card" -> <<"FALSE">>
          [] c = "SEO Title" -> Take(title, SEO_TITLE_MAX)
          [] c = "SEO Description" ->
                 <<"High-quality ">> \o Take(title, SEO_DESC_MAX - HQ_LEN)
          [] c = "Status" -> row_get(df, r, "Status", <<"active">>)
          [] OTHER -> <<>>]

variant_row(df, r, ax, color, size, first) ==
    LET title == py_str(r["Title"]) IN
    [c \in Range(pod_columns) |->
        CASE c = "Handle" -> IF first THEN pod_slug(title) ELSE <<>>
          [] c = "Title" -> IF first THEN title ELSE <<>>
          [] c = "Body (HTML)" -> IF first THEN r["Body (HTML)"] ELSE <<>>
          [] c = "Vendor" ->
                 IF first THEN row_get(df, r, "Vendor", <<"Aceru Studio">>) ELSE <<>>
          [] c = "Type" -> IF first THEN <<"t-shirt">> ELSE <<>>
          [] c = "Tags" -> IF first THEN row_get(df, r, "Tags", <<>>) ELSE <<>>
          [] c = "Published" -> IF first THEN <<"True">> ELSE <<>>
          [] c = "Option1 Name" -> <<"Color">>
          [] c = "Option1 Value" -> color
          [] c = "Option2 Name" -> <<"Size">>
          [] c = "Option2 Value" -> size
          [] c = "Variant SKU" -> variant_sku(ax, color, size)
          [] c = "Variant Inventory Qty" -> <<"20">>
          [] c = "Variant Inventory Policy" -> <<"deny">>
          [] c = "Variant Fulfillment Service" -> <<"manual">>
          [] c = "Variant Price" ->
                 price_by_size(size, row_get(df, r, "Variant Price", <<"24.90">>))
          [] c \in {"Variant Requires Shipping", "Variant Taxable"} -> <<"True">>
          [] c = "Gift Card" -> <<"FALSE">>
          [] c = "SEO Title" -> IF first THEN Take(title, SEO_TITLE_MAX) ELSE <<>>
          [] c = "SEO Description" ->
                 IF first
                 THEN <<"High-quality ">> \o Take(title, SEO_DESC_MAX - HQ_LEN)
                 ELSE <<>>
          [] c = "Status" ->
                 IF first THEN row_get(df, r, "Status", <<"active">>) ELSE <<"active">>
          [] OTHER -> <<>>]

\* the rows appended for the base row r: the inner loop over the pairs
expand_drop_last(df, r, ax) ==
    [k \in 1..(Len(ax.colors) * Len(ax.sizes) - 1) |->
        variant_row(df, r, ax, axis_pair(ax, k).color, axis_pair(ax, k).size, k = 1)]

expand(df, r, ax) ==
    [k \in 1..(Len(ax.colors) * Len(ax.sizes)) |->
        variant_row(df, r, ax, axis_pair(ax, k).color, axis_pair(ax, k).size, k = 1)]

\* pd.DataFrame(rows): the columns are the keys of the dicts; none when rows is empty
pod_frame(rws) == [cols |-> IF rws = <<>> THEN <<>> ELSE pod_columns, rows |-> rws]

(***************************************************************************)
(* The Merge stage: merge_images_into_products.                            *)
(***************************************************************************)
REQUIRED_PRODUCT_COLS == {"Handle", "Title", "Body (HTML)", "Vendor", "Status"}
IMAGE_COLS == {"Handle", "Image Src", "Image Alt Text", "Image Position"}

\* the columns of outputs/shopify_images.csv, in the order of the dict
image_columns == <<"Handle", "Image Src", "Image Alt Text", "Image Position">>

ensure_cols_raises_if_all_missing(df, cols) == \A c \in cols : c \notin Range(df.cols)

\* ensure_cols(df, cols, name) raises ValueError
ensure_cols_raises(df, cols) == \E c \in cols : c \notin Range(df.cols)

\* c.lower() of a header of the mapping file
LowerName(c) ==
    CASE c = "New_Filename" -> "new_filename"
      [] c = "URL" -> "url"
      [] OTHER -> c

\* cols = {c.lower(): c for c in m.columns}: the last column spelled so wins
lower_cols(m, name) ==
    LET hits == {i \in 1..Len(m.cols) : LowerName(m.cols[i]) = name} IN
    IF hits = {} THEN "(absent)"
    ELSE m.cols[CHOOSE i \in hits : \A j \in hits : j <= i]

\* the loop over the rows of the mapping data frame m: a pair is kept when the
\* stripped filename and the stripped url are both non-empty; a later row wins
build_filemap(m) ==
    LET fc == lower_cols(m, "new_filename")
        uc == lower_cols(m, "url")
        fn(i) == Strip(py_str(m.rows[i][fc]))
        url(i) == Strip(py_str(m.rows[i][uc]))
        kept == {i \in 1..Len(m.rows) : fn(i) # <<>> /\ url(i) # <<>>}
    IN IF fc = "(absent)" \/ uc = "(absent)" THEN <<>>
       ELSE [f \in {fn(i) : i \in kept} |->
                url(CHOOSE i \in kept : fn(i) = f /\ \A j \in kept : fn(j) = f => j <= i)]

\* filemap.get(str(x).strip(), x)
filemap_get(fm, x) ==
    IF Strip(py_str(x)) \in DOMAIN fm THEN fm[Strip(py_str(x))] ELSE x

\* if filemap: imgs["Image Src"] = imgs["Image Src"].apply(...)
replace_src(df, fm) ==
    IF fm = <<>> THEN df
    ELSE [cols |-> df.cols,
          rows |-> [i \in 1..Len(df.rows) |->
                       [c \in Range(df.cols) |->
                           IF c = "Image Src" THEN filemap_get(fm, df.rows[i][c])
                           ELSE df.rows[i][c]]]]

\* the output schema: the product columns, then the image columns they lack
RECURSIVE add_missing(_, _)
add_missing(cols, more) ==
    IF more = <<>> THEN cols
    ELSE add_missing(IF Head(more) \in Range(cols) THEN cols ELSE Append(cols, Head(more)),
                     Tail(more))

out_cols(df) == add_missing(df.cols, <<"Image Src", "Image Alt Text", "Image Position">>)

\* row = {c: r[c] if c in r else "" for c in out_cols}
product_row(df, r) ==
    [c \in Range(out_cols(df)) |-> IF c \in Range(df.cols) THEN r[c] ELSE <<>>]

image_row_src_only(df, r) ==
    [c \in Range(out_cols(df)) |-> IF c \in {"Handle", "Image Src"} THEN r[c] ELSE <<>>]

\* the blank template with the handle and the image columns set
image_row(df, r) ==
    [c \in Range(out_cols(df)) |-> IF c \in IMAGE_COLS THEN r[c] ELSE <<>>]

merged_rows_images_first(pdf, idf) ==
    [i \in 1..Len(idf.rows) |-> image_row(pdf, idf.rows[i])]
        \o [i \in 1..Len(pdf.rows) |-> product_row(pdf, pdf.rows[i])]

\* merged_rows after both loops
merged_rows(pdf, idf) ==
    [i \in 1..Len(pdf.rows) |-> product_row(pdf, pdf.rows[i])]
        \o [i \in 1..Len(idf.rows) |-> image_row(pdf, idf.rows[i])]

(***************************************************************************)
(* Runs.  A run is one process: one sub-command of ecom_agents.py, or      *)
(* seed_from_kit.py, product_optimizer_agent.py or image_seo_prep.py.      *)
(* BudgetGuard takes the per-call estimate as a constructor argument; the  *)
(* runs are explored under the estimates of both guarded modules.          *)
(***************************************************************************)
BatchCmds == {"product_copy"}
SingleCallCmds == {"niche_kit", "ad_creatives", "seed_from_kit"}
GuardedCmds == BatchCmds \cup SingleCallCmds
UnguardedCmds == {"optimizer", "image_seo"}
Cmds == GuardedCmds \cup UnguardedCmds

\* rows of outputs/product_copy.csv, the input of the optimizer and of image_seo_prep
ProductRows == {copy_fallback(r) : r \in CatalogRows} \cup {copy_adopt(RowMat, DataOk)}

\* the optimizer's response objects: the "title" key of the returned dict
OptObjects == {[title |-> JStr(<<"M", "a", "t">>)], [title |-> JMissing], [title |-> JNull]}
OptContents ==
    {[raw |-> JsonText, obj |-> d] : d \in OptObjects}
        \cup {[raw |-> t, obj |-> [title |-> JStr(<<"M", "a", "t">>)]] : t \in RawTexts}

LLM_ALT == <<"a", "l", "t">>

SlugIdle == s_in = <<>> /\ s_out = <<>>

(***************************************************************************)
(* The artifact files.  Every program is run with its default paths; a     *)
(* file is known by its path and by the program that wrote it last         *)
(* ("user": supplied by hand).  images_in/ stands for the raw image files, *)
(* outputs/*.img for the renamed copies image_seo_prep writes.             *)
(***************************************************************************)
Stages ==
    {"seed_from_kit", "niche_kit", "ad_creatives", "product_copy", "shopify_csv",
     "pod_variants", "optimizer", "image_seo", "make_file_urls", "merge"}

\* what a program requires to exist (reads), what it writes before it looks
\* for its input when the file is not there yet (early), what it writes, in
\* this order, once the input is there (writes), and what it writes when the
\* input is missing (scaffold)
program(s) ==
    LET P(reads, early, writes, scaffold) ==
            [reads |-> reads, early |-> early, writes |-> writes, scaffold |-> scaffold]
    IN CASE s = "seed_from_kit" ->
                P({"outputs/desk_niche.json"}, {}, <<"inputs/products.csv">>, {})
         [] s = "niche_kit" -> P({}, {}, <<"outputs/niche_kit.json">>, {})
         [] s = "ad_creatives" -> P({}, {}, <<"outputs/ad_creatives.json">>, {})
         [] s = "product_copy" ->
                P({"inputs/products.csv"}, {}, <<"outputs/product_copy.csv">>,
                  {"inputs/products.csv"})
         [] s = "shopify_csv" ->
                P({"outputs/product_copy.csv"}, {}, <<"outputs/shopify_import.csv">>, {})
         [] s = "pod_variants" ->
                P({"outputs/product_copy.csv"}, {}, <<"outputs/shopify_import_pod.csv">>, {})
         [] s = "optimizer" ->
                P({"outputs/product_copy.csv"}, {"outputs/experiments_log.csv"},
                  <<"outputs/experiments_log.csv", "outputs/product_optimized.csv">>, {})
         [] s = "image_seo" ->
                P({"outputs/product_copy.csv", "images_in/"}, {},
                  <<"outputs/*.img", "outputs/image_mapping.csv",
                    "outputs/shopify_images.csv">>, {})
         [] s = "make_file_urls" -> P({"outputs/*.img"}, {}, <<"outputs/file_urls.csv">>, {})
         [] OTHER ->
                P({"outputs/shopify_import.csv", "outputs/shopify_images.csv"}, {},
                  <<"outputs/shopify_import_with_images.csv">>, {})

Paths ==
    UNION {program(s).reads \cup program(s).early \cup Range(program(s).writes)
               \cup program(s).scaffold : s \in Stages}

written_in_place(s, f, k) ==
    IF \E r \in program(s).reads : f[r] = "absent" THEN {}
    ELSE program(s).reads \cup {program(s).writes[i] : i \in 1..k}

\* the files a run of s writes on the files f, when it gets as far as its
\* k-th write (it may fail or be interrupted before)
written(s, f, k) ==
    {q \in program(s).early : f[q] = "absent"}
        \cup (IF \E r \in program(s).reads : f[r] = "absent"
              THEN program(s).scaffold
              ELSE {program(s).writes[i] : i \in 1..k})

FlowIdle ==
    /\ fs = [p \in Paths |-> "absent"]
    /\ flast = "none"
    /\ fruns = 0

TableFresh ==
    /\ tpc = "main"
    /\ filemap = <<>>
    /\ tout = NoFile
    /\ prev = NoFile
    /\ passes = 0
    /\ tidx = 0
    /\ trows = <<>>
    /\ texc = "none"
    /\ toutcome = "running"
    /\ texit = -1
    /\ tmissing = {}

TableIdle ==
    /\ stage = "none"
    /\ prod = NoFile
    /\ images = NoFile
    /\ file_urls = NoFile
    /\ axes = DefaultAxes
    /\ TableFresh

GuardFresh ==
    /\ spent = 0
    /\ lastCalls = 0
    /\ lastResult = "none"
    /\ rejected1 = FALSE

RunFresh ==
    /\ pc = "main"
    /\ idx = 0
    /\ rows = <<>>
    /\ exc = "none"
    /\ data = NoData
    /\ content = NoContent
    /\ requests = 0
    /\ sleeps = 0
    /\ reserved = 0
    /\ rejectedAt = 0
    /\ outcome = "running"
    /\ report = <<>>
    /\ imgI = 0

Init ==
    /\ cmd \in Cmds
    /\ total \in (IF cmd \in GuardedCmds THEN RunCeilings ELSE {0})
    /\ est \in (IF cmd \in GuardedCmds THEN Estimates ELSE {0})
    /\ GuardFresh
    /\ RunFresh
    /\ batch \in (IF cmd \in BatchCmds THEN Batches(CatalogRows)
                  ELSE IF cmd \in UnguardedCmds THEN Batches(ProductRows)
                  ELSE {<<>>})
    /\ client \in (IF cmd \in GuardedCmds THEN {TRUE} ELSE BOOLEAN)
    /\ imgs \in (IF cmd = "image_seo" THEN 0..MaxImages ELSE {0})
    /\ perProduct \in (IF cmd = "image_seo" THEN 1..MaxPerProduct ELSE {1})
    /\ SlugIdle
    /\ TableIdle
    /\ FlowIdle

\* main(): dispatch on the sub-command
Main ==
    /\ pc = "main"
    /\ \/ /\ cmd = "product_copy"
          /\ IF batch = <<>> THEN pc' = "write" /\ idx' = idx
                             ELSE pc' = "book" /\ idx' = 1
          /\ UNCHANGED <<exc, outcome, report>>
       \/ /\ cmd \in {"niche_kit", "ad_creatives"}
          /\ pc' = "book" /\ idx' = 1
          /\ UNCHANGED <<exc, outcome, report>>
       \/ /\ cmd = "seed_from_kit"
          /\ \E kit \in {"ok", "missing", "no_ideas"} :
                IF kit = "ok"
                THEN pc' = "book" /\ idx' = 1 /\ exc' = exc
                ELSE /\ pc' = "raise" /\ idx' = idx
                     /\ exc' = (IF kit = "missing" THEN "FileNotFoundError" ELSE "RuntimeError")
          /\ UNCHANGED <<outcome, report>>
       \/ /\ cmd = "optimizer"
          /\ IF batch = <<>> THEN pc' = "write" /\ idx' = idx
                             ELSE pc' = "opt_request" /\ idx' = 1
          /\ UNCHANGED <<exc, outcome, report>>
       \/ /\ cmd = "image_seo"
          /\ IF imgs = 0 THEN pc' = "exit" /\ idx' = idx /\ outcome' = "success"
             ELSE IF batch = <<>> THEN pc' = "write" /\ idx' = idx /\ outcome' = outcome
             ELSE pc' = "img_row" /\ idx' = 1 /\ outcome' = outcome
          /\ UNCHANGED <<exc, report>>
    /\ UNCHANGED <<budgetVars, cmd, batch, rows, data, content, requests, sleeps,
                   reserved, rejectedAt, client, imgs, perProduct, imgI, slugVars, tableVars, flowVars>>

(***************************************************************************)
(* The gateway: llm_json of ecom_agents.py and of seed_from_kit.py.        *)
(* (llm_text of ecom_agents.py books, sleeps and requests the same way; no *)
(* stage calls it.)                                                        *)
(***************************************************************************)
LlmBook_request_anyway ==
    /\ pc = "book"
    /\ LET r == reserve(cmd, spent, est, total, 1) IN
       /\ spent' = r.spent
       /\ lastCalls' = 1
       /\ lastResult' = (IF r.raised THEN "BudgetExceeded" ELSE "ok")
       /\ rejected1' = (rejected1 \/ r.raised)
       /\ reserved' = (IF r.raised THEN reserved ELSE reserved + 1)
       /\ rejectedAt' = (IF r.raised /\ rejectedAt = 0 THEN idx ELSE rejectedAt)
       /\ exc' = exc
       /\ pc' = "sleep"
    /\ UNCHANGED <<total, est, cmd, batch, idx, rows, data, content, requests, sleeps,
                   outcome, report, client, imgs, perProduct, imgI, slugVars, tableVars,
                   flowVars>>

\* BUDGET.check_and_book(1) / BUDGET.book(1)
LlmBook ==
    /\ pc = "book"
    /\ LET r == reserve(cmd, spent, est, total, 1) IN
       /\ spent' = r.spent
       /\ lastCalls' = 1
       /\ lastResult' = (IF r.raised THEN "BudgetExceeded" ELSE "ok")
       /\ rejected1' = (rejected1 \/ r.raised)
       /\ reserved' = (IF r.raised THEN reserved ELSE reserved + 1)
       /\ rejectedAt' = (IF r.raised /\ rejectedAt = 0 THEN idx ELSE rejectedAt)
       /\ exc' = (IF r.raised THEN "BudgetExceeded" ELSE exc)
       /\ pc' = (IF r.raised THEN "raise" ELSE "sleep")
    /\ UNCHANGED <<total, est, cmd, batch, idx, rows, data, content, requests, sleeps,
                   outcome, report, client, imgs, perProduct, imgI, slugVars, tableVars, flowVars>>

\* time.sleep(RATE_LIMIT_S)
LlmSleep ==
    /\ pc = "sleep"
    /\ sleeps' = sleeps + 1
    /\ pc' = "request"
    /\ UNCHANGED <<budgetVars, cmd, batch, idx, rows, exc, data, content, requests,
                   reserved, rejectedAt, outcome, report, client, imgs, perProduct, imgI, slugVars, tableVars, flowVars>>

LlmRequest_retry ==
    /\ pc = "request"
    /\ \/ \E e \in ProviderErrors :
             requests' = requests + 2 /\ exc' = e /\ pc' = "raise" /\ content' = content
       \/ \E c \in Contents :
             requests' = requests + 1 /\ content' = c /\ pc' = "parse" /\ exc' = exc
    /\ UNCHANGED <<budgetVars, cmd, batch, idx, rows, data, sleeps, reserved,
                   rejectedAt, outcome, report, client, imgs, perProduct, imgI, slugVars,
                   tableVars, flowVars>>

\* client.chat.completions.create(...): the request is issued; the provider
\* answers with a text or the call raises
LlmRequest ==
    /\ pc = "request"
    /\ requests' = requests + 1
    /\ \/ \E e \in ProviderErrors :
             exc' = e /\ pc' = "raise" /\ content' = content
       \/ \E c \in Contents :
             content' = c /\ pc' = "parse" /\ exc' = exc
    /\ UNCHANGED <<budgetVars, cmd, batch, idx, rows, data, sleeps, reserved,
                   rejectedAt, outcome, report, client, imgs, perProduct, imgI, slugVars, tableVars, flowVars>>

\* return json.loads(resp.choices[0].message.content)
LlmParse ==
    /\ pc = "parse"
    /\ LET r == json_loads(content) IN
       /\ data' = r.obj
       /\ exc' = (IF r.raised THEN "JSONDecodeError" ELSE exc)
       /\ pc' = (IF r.raised THEN "raise" ELSE "return")
    /\ content' = NoContent
    /\ UNCHANGED <<budgetVars, cmd, batch, idx, rows, requests, sleeps, reserved,
                   rejectedAt, outcome, report, client, imgs, perProduct, imgI, slugVars, tableVars, flowVars>>

(***************************************************************************)
(* generate_product_copy: the loop body after llm_json, and the write.     *)
(***************************************************************************)
\* the for loop moves to the next row, or ends
Advance(next) ==
    IF idx < Len(batch) THEN pc' = next /\ idx' = idx + 1
                        ELSE pc' = "write" /\ idx' = idx

\* the try branch after llm_json returned
CopyAdopt ==
    /\ cmd = "product_copy"
    /\ pc = "return"
    /\ IF copy_adopt_raises(data)
       THEN exc' = "TypeError" /\ pc' = "raise" /\ UNCHANGED <<rows, idx>>
       ELSE /\ rows' = Append(rows, copy_adopt(batch[idx], data))
            /\ exc' = exc
            /\ Advance("book")
    /\ data' = NoData
    /\ UNCHANGED <<budgetVars, cmd, batch, content, requests, sleeps, reserved,
                   rejectedAt, outcome, report, client, imgs, perProduct, imgI, slugVars, tableVars, flowVars>>

CopyFallback_skip_row ==
    /\ cmd = "product_copy"
    /\ pc = "raise"
    /\ rows' = rows
    /\ exc' = "none"
    /\ Advance("book")
    /\ UNCHANGED <<budgetVars, cmd, batch, data, content, requests, sleeps, reserved,
                   rejectedAt, outcome, report, client, imgs, perProduct, imgI, slugVars, tableVars, flowVars>>

\* except Exception: the warning is printed and the fallback row is appended
CopyFallback ==
    /\ cmd = "product_copy"
    /\ pc = "raise"
    /\ rows' = Append(rows, copy_fallback(batch[idx]))
    /\ exc' = "none"
    /\ Advance("book")
    /\ UNCHANGED <<budgetVars, cmd, batch, data, content, requests, sleeps, reserved,
                   rejectedAt, outcome, report, client, imgs, perProduct, imgI, slugVars, tableVars, flowVars>>

\* out_df.to_csv(csv_out); main returns and __main__ prints [SUCCESS] with
\* Budget~$spent/total
CopyWrite ==
    /\ cmd = "product_copy"
    /\ pc = "write"
    /\ pc' = "exit"
    /\ outcome' = "success"
    /\ report' = <<spent, total>>
    /\ UNCHANGED <<budgetVars, cmd, batch, idx, rows, exc, data, content, requests,
                   sleeps, reserved, rejectedAt, client, imgs, perProduct, imgI, slugVars, tableVars, flowVars>>

(***************************************************************************)
(* The single-call stages: generate_niche_kit, generate_ad_creatives and   *)
(* seed_products_from_kit (the rows the seeding response holds are not     *)
(* modelled).                                                              *)
(***************************************************************************)
KitReturn ==
    /\ cmd \in SingleCallCmds
    /\ pc = "return"
    /\ pc' = "exit"
    /\ outcome' = "success"
    /\ report' = <<spent, total>>
    /\ data' = NoData
    /\ UNCHANGED <<budgetVars, cmd, batch, idx, rows, exc, content, requests,
                   sleeps, reserved, rejectedAt, client, imgs, perProduct, imgI, slugVars, tableVars, flowVars>>

\* an exception nobody caught reaches __main__, which prints [FATAL ERROR] and
\* the exception's message; the message of the guard's RuntimeError names the
\* spent amount and the cap, no other message does
MainRaise ==
    /\ cmd \in SingleCallCmds \cup {"optimizer"}
    /\ pc = "raise"
    /\ pc' = "exit"
    /\ outcome' = "fatal"
    /\ report' = (IF exc = "BudgetExceeded" THEN <<spent, total>> ELSE <<>>)
    /\ UNCHANGED <<budgetVars, cmd, batch, idx, rows, exc, data, content, requests,
                   sleeps, reserved, rejectedAt, client, imgs, perProduct, imgI, slugVars, tableVars, flowVars>>

(***************************************************************************)
(* product_optimizer_agent: call_openai_json and the loop of main.         *)
(***************************************************************************)
\* client.chat.completions.create / openai.ChatCompletion.create
OptRequest ==
    /\ cmd = "optimizer"
    /\ pc = "opt_request"
    /\ requests' = requests + 1
    /\ \/ \E e \in ProviderErrors :
             exc' = e /\ pc' = "raise" /\ content' = content
       \/ \E c \in OptContents :
             content' = c /\ pc' = "opt_parse" /\ exc' = exc
    /\ UNCHANGED <<budgetVars, cmd, batch, idx, rows, data, sleeps, reserved,
                   rejectedAt, outcome, report, client, imgs, perProduct, imgI, slugVars, tableVars, flowVars>>

\* try: json.loads(content); except: content.strip(), s = find("{"),
\* e = rfind("}"), json.loads(content[s:e+1])
call_openai_json_parse(c) ==
    IF ~json_decode(c.raw, c.obj).raised THEN json_decode(c.raw, c.obj)
    ELSE LET stripped == Strip(c.raw)
             s == py_find(stripped, "{")
             e == py_rfind(stripped, "}")
         IN json_decode(py_slice(stripped, s, e + 1), c.obj)

OptParse ==
    /\ cmd = "optimizer"
    /\ pc = "opt_parse"
    /\ LET r == call_openai_json_parse(content) IN
       /\ data' = r.obj
       /\ exc' = (IF r.raised THEN "JSONDecodeError" ELSE exc)
       /\ pc' = (IF r.raised THEN "raise" ELSE "opt_row")
    /\ content' = NoContent
    /\ UNCHANGED <<budgetVars, cmd, batch, idx, rows, requests, sleeps, reserved,
                   rejectedAt, outcome, report, client, imgs, perProduct, imgI, slugVars, tableVars, flowVars>>

\* the output row of the optimizer (prices and bullets are not modelled)
opt_row(r, d) ==
    LET title == Strip(r.Title) IN
    [Handle |-> make_handle(title),
     Title |-> r.Title,
     OptimizedTitle |-> Take(IF d.title.t = "missing" THEN title ELSE d.title.s, TITLE_MAX)]

OptRow ==
    /\ cmd = "optimizer"
    /\ pc = "opt_row"
    /\ IF data.title.t \notin {"str", "missing"}
       THEN exc' = "TypeError" /\ pc' = "raise" /\ UNCHANGED <<rows, idx>>
       ELSE /\ rows' = Append(rows, opt_row(batch[idx], data))
            /\ exc' = exc
            /\ Advance("opt_request")
    /\ data' = NoData
    /\ UNCHANGED <<budgetVars, cmd, batch, content, requests, sleeps, reserved,
                   rejectedAt, outcome, report, client, imgs, perProduct, imgI, slugVars, tableVars, flowVars>>

OptWrite ==
    /\ cmd = "optimizer"
    /\ pc = "write"
    /\ pc' = "exit"
    /\ outcome' = "success"
    /\ report' = <<>>
    /\ UNCHANGED <<budgetVars, cmd, batch, idx, rows, exc, data, content, requests,
                   sleeps, reserved, rejectedAt, client, imgs, perProduct, imgI, slugVars, tableVars, flowVars>>

(***************************************************************************)
(* image_seo_prep: llm_alt_text and the loop of main.                      *)
(***************************************************************************)
Str(n) == <<"1", "2", "3", "4", "5", "6", "7", "8", "9">>[n]

NonBlank(x) == Strip(x) # <<>>

smart_alt_from_title(title, tags) ==
    LET base == Strip(title)
        extra == Join(<<",", " ">>, Take(SelectSeq(SplitOn(tags, ","), NonBlank), 3))
    IN IF extra # <<>> THEN base \o <<" ", "--", " ">> \o extra ELSE base

\* the Shopify image rows one product row gets: k images, positions 1..k
image_rows(r, alt, k) ==
    LET title == Strip(r.Title) IN
    [j \in 1..k |->
        [Handle |-> image_handle(title),
         ImageSrc |-> image_slug(title \o <<"-", Str(j)>>) \o <<".jpg">>,
         Alt |-> alt,
         Position |-> j]]

\* one product row: the ALT text (a chat-completion request when the client
\* exists, the heuristic when it does not or when the request fails), then
\* the assignment of up to perProduct images
ImgRow ==
    /\ cmd = "image_seo"
    /\ pc = "img_row"
    /\ LET r == batch[idx]
           heur == smart_alt_from_title(Strip(r.Title), Strip(r.Tags))
           k == IF imgs - imgI < perProduct THEN imgs - imgI ELSE perProduct
       IN /\ \/ /\ ~client
                /\ requests' = requests
                /\ rows' = rows \o image_rows(r, heur, k)
             \/ /\ client
                /\ requests' = requests + 1
                /\ \E alt \in {LLM_ALT, heur} : rows' = rows \o image_rows(r, alt, k)
          /\ imgI' = imgI + k
          /\ IF imgI + k >= imgs THEN pc' = "write" /\ idx' = idx ELSE Advance("img_row")
    /\ UNCHANGED <<budgetVars, cmd, batch, exc, data, content, sleeps, reserved,
                   rejectedAt, outcome, report, client, imgs, perProduct, slugVars, tableVars, flowVars>>

ImgWrite ==
    /\ cmd = "image_seo"
    /\ pc = "write"
    /\ pc' = "exit"
    /\ outcome' = "success"
    /\ report' = <<>>
    /\ UNCHANGED <<budgetVars, cmd, batch, idx, rows, exc, data, content, requests,
                   sleeps, reserved, rejectedAt, client, imgs, perProduct, imgI, slugVars, tableVars, flowVars>>

Next ==
    \/ Main
    \/ LlmBook
    \/ LlmSleep
    \/ LlmRequest
    \/ LlmParse
    \/ CopyAdopt
    \/ CopyFallback
    \/ CopyWrite
    \/ KitReturn
    \/ MainRaise
    \/ OptRequest
    \/ OptParse
    \/ OptRow
    \/ OptWrite
    \/ ImgRow
    \/ ImgWrite

Spec == Init /\ [][Next]_vars

(***************************************************************************)
(* The Budget Guard on its own: a guard is constructed and reserve is      *)
(* called with any call counts, in any order.                              *)
(***************************************************************************)
RunIdle ==
    /\ RunFresh
    /\ batch = <<>>
    /\ client = TRUE
    /\ imgs = 0
    /\ perProduct = 1

BudgetInit ==
    /\ cmd \in {"product_copy", "seed_from_kit"}
    /\ total \in Ceilings
    /\ est \in Estimates
    /\ GuardFresh
    /\ RunIdle
    /\ SlugIdle
    /\ TableIdle
    /\ FlowIdle

Reserve(n) ==
    /\ LET r == reserve(cmd, spent, est, total, n) IN
       /\ spent' = r.spent
       /\ lastCalls' = n
       /\ lastResult' = (IF r.raised THEN "BudgetExceeded" ELSE "ok")
       /\ rejected1' = (rejected1 \/ (n = 1 /\ r.raised))
    /\ UNCHANGED <<total, est, runVars, slugVars, tableVars, flowVars>>

BudgetNext == \E n \in 1..MaxCallCount : Reserve(n)

BudgetSpec == BudgetInit /\ [][BudgetNext]_vars

(***************************************************************************)
(* The slug functions on their own: each is applied to a title, and again  *)
(* to its own result.                                                      *)
(***************************************************************************)
SlugAtoms == {"a", "B", " ", "-", "!"}

Titles == UNION {[1..n -> SlugAtoms] : n \in 0..MaxSlugLen}

SlugInit ==
    /\ s_in \in Titles
    /\ s_out = <<>>
    /\ cmd = "product_copy"
    /\ total = 0
    /\ est = EST_COST_PER_CALL
    /\ GuardFresh
    /\ RunIdle
    /\ TableIdle
    /\ FlowIdle

SlugApply ==
    /\ s_out = <<>>
    /\ s_out' = <<[shopify |-> shopify_slug(s_in),
                   shopify2 |-> shopify_slug(shopify_slug(s_in)),
                   pod |-> pod_slug(s_in),
                   pod2 |-> pod_slug(pod_slug(s_in)),
                   image |-> image_slug(s_in),
                   image2 |-> image_slug(image_slug(s_in)),
                   opt_handle |-> make_handle(Strip(s_in)),
                   img_handle |-> image_handle(Strip(s_in))]>>
    /\ UNCHANGED <<s_in, budgetVars, runVars, tableVars, flowVars>>

SlugNext == SlugApply

SlugSpec == SlugInit /\ [][SlugNext]_vars

(***************************************************************************)
(* The table stages on their own: ecom_agents.py shopify_csv,              *)
(* pod_variants_builder.py and merge_images_into_products.py, each run on  *)
(* a CSV file; a stage that succeeded may be run once more (shopify_csv on *)
(* the file it wrote, pod_variants on the same input).                     *)
(***************************************************************************)
\* the row of outputs/shopify_images.csv written for an image row of image_seo_prep
image_csv_row(x) ==
    [c \in Range(image_columns) |->
        CASE c = "Handle" -> x.Handle
          [] c = "Image Src" -> x.ImageSrc
          [] c = "Image Alt Text" -> x.Alt
          [] OTHER -> <<Str(x.Position)>>]

images_csv(xs) == File(image_columns, [i \in 1..Len(xs) |-> image_csv_row(xs[i])])

\* the input files of shopify_csv and pod_variants: outputs/product_copy.csv as
\* the enrichment stage writes it, an intermediate file supplied from
\* elsewhere, files that lack one column, and no file
TableInputs ==
    LET ExternalCols == {"Handle", "Body (HTML)", "Title", "Notes"}
        ExternalFile ==
            File(<<"Handle", "Body (HTML)", "Title", "Notes">>,
                 << [c \in ExternalCols |->
                        CASE c = "Title" -> [i \in 1..(SEO_DESC_MAX + 2) |-> "x"]
                          [] c = "Handle" -> <<"h">>
                          [] OTHER -> <<"b">>],
                    [c \in ExternalCols |->
                        CASE c = "Title" ->
                                 <<" ", "D", "e", "s", "k", " ", " ", "M", "a", "t", "!", " ">>
                          [] c = "Handle" -> <<>>
                          [] OTHER -> <<"b">>] >>)
    IN {product_copy_csv(b) : b \in Batches(ProductRows)}
           \cup {DropCol(product_copy_csv(<<copy_fallback(RowMat)>>), c) :
                    c \in Range(copy_columns)}
           \cup {DropCol(ExternalFile, "Title"), DropCol(ExternalFile, "Body (HTML)"),
                 ExternalFile, NoFile}

\* ecom_agents.py run with the sub-command shopify_csv: the module-level check
\* of OPENAI_API_KEY (raise SystemExit(1)), then main() and build_shopify_csv,
\* then the except branch or the [SUCCESS] line of __main__; the script ends
\* there, with exit status 0
ShopifyCsv ==
    /\ stage = "shopify_csv"
    /\ tpc = "main"
    /\ tpc' = "exit"
    /\ IF ~client
       THEN /\ texc' = "SystemExit"
            /\ toutcome' = "fatal"
            /\ texit' = 1
            /\ tout' = tout
       ELSE IF ~prod.exists
       THEN /\ toutcome' = "success"
            /\ texit' = 0
            /\ UNCHANGED <<tout, texc>>
       ELSE LET r == build_shopify_csv(read_csv(prod)) IN
            IF r.raised # "none"
            THEN /\ texc' = r.raised
                 /\ toutcome' = "fatal"
                 /\ texit' = 0
                 /\ tout' = tout
            ELSE /\ tout' = to_csv(r.df)
                 /\ toutcome' = "success"
                 /\ texit' = 0
                 /\ texc' = texc
    /\ UNCHANGED <<budgetVars, runVars, slugVars, flowVars, tmissing, stage, prod, images, file_urls, axes,
                   filemap, prev, passes, tidx, trows>>

\* pod_variants_builder.main up to the loop
PodStart ==
    /\ stage = "pod_variants"
    /\ tpc = "main"
    /\ IF ~prod.exists
       THEN /\ texc' = "FileNotFoundError"
            /\ toutcome' = "fatal"
            /\ texit' = 0
            /\ tpc' = "exit"
            /\ tidx' = tidx
       ELSE /\ IF prod.rows = <<>> THEN tpc' = "write" /\ tidx' = tidx
                                   ELSE tpc' = "row" /\ tidx' = 1
            /\ UNCHANGED <<texc, toutcome, texit>>
    /\ UNCHANGED <<budgetVars, runVars, slugVars, flowVars, tmissing, stage, prod, images, file_urls, axes,
                   filemap, tout, prev, passes, trows>>

\* one base row: r["Title"] and r["Body (HTML)"] raise KeyError when the column
\* is absent; otherwise the inner loop appends one row per (color, size) pair
PodRow ==
    /\ stage = "pod_variants"
    /\ tpc = "row"
    /\ LET df == read_csv(prod) IN
       IF "Title" \notin Range(df.cols) \/ "Body (HTML)" \notin Range(df.cols)
       THEN /\ texc' = "KeyError"
            /\ toutcome' = "fatal"
            /\ texit' = 0
            /\ tpc' = "exit"
            /\ UNCHANGED <<tidx, trows>>
       ELSE /\ trows' = trows \o expand(df, df.rows[tidx], axes)
            /\ IF tidx < Len(df.rows) THEN tpc' = "row" /\ tidx' = tidx + 1
                                      ELSE tpc' = "write" /\ tidx' = tidx
            /\ UNCHANGED <<texc, toutcome, texit>>
    /\ UNCHANGED <<budgetVars, runVars, slugVars, flowVars, tmissing, stage, prod, images, file_urls, axes,
                   filemap, tout, prev, passes>>

\* out = pd.DataFrame(rows); out.to_csv(OUT_CSV)
PodWrite ==
    /\ stage = "pod_variants"
    /\ tpc = "write"
    /\ tout' = to_csv(pod_frame(trows))
    /\ toutcome' = "success"
    /\ texit' = 0
    /\ tpc' = "exit"
    /\ UNCHANGED <<budgetVars, runVars, slugVars, flowVars, tmissing, stage, prod, images, file_urls, axes,
                   filemap, prev, passes, tidx, trows, texc>>

\* the stage is run once more: shopify_csv with --in naming the file it wrote,
\* pod_variants on the unchanged outputs/product_copy.csv
Rerun ==
    /\ stage \in {"shopify_csv", "pod_variants"}
    /\ tpc = "exit"
    /\ toutcome = "success"
    /\ tout.exists
    /\ passes = 0
    /\ prod' = (IF stage = "shopify_csv" THEN tout ELSE prod)
    /\ prev' = tout
    /\ passes' = passes + 1
    /\ tpc' = "main"
    /\ tidx' = 0
    /\ trows' = <<>>
    /\ toutcome' = "running"
    /\ texit' = -1
    /\ UNCHANGED <<budgetVars, runVars, slugVars, flowVars, tmissing, stage, images, file_urls, axes,
                   filemap, tout, texc>>

\* missing = [c for c in cols if c not in df.columns]
missing_cols(df, cols) == {c \in cols : c \notin Range(df.cols)}

\* load_csv and ensure_cols, for the products and then for the images
MergeLoad ==
    /\ stage = "merge"
    /\ tpc = "main"
    /\ IF ~prod.exists \/ (~ensure_cols_raises(read_csv(prod), REQUIRED_PRODUCT_COLS)
                             /\ ~images.exists)
       THEN /\ texc' = "FileNotFoundError" /\ toutcome' = "fatal" /\ texit' = 0
            /\ tpc' = "exit" /\ tmissing' = tmissing
       ELSE IF ensure_cols_raises(read_csv(prod), REQUIRED_PRODUCT_COLS)
       THEN /\ texc' = "ValueError" /\ toutcome' = "fatal" /\ texit' = 0 /\ tpc' = "exit"
            /\ tmissing' = missing_cols(read_csv(prod), REQUIRED_PRODUCT_COLS)
       ELSE IF ensure_cols_raises(read_csv(images), IMAGE_COLS)
       THEN /\ texc' = "ValueError" /\ toutcome' = "fatal" /\ texit' = 0 /\ tpc' = "exit"
            /\ tmissing' = missing_cols(read_csv(images), IMAGE_COLS)
       ELSE tpc' = "filemap" /\ UNCHANGED <<texc, toutcome, texit, tmissing>>
    /\ UNCHANGED <<budgetVars, runVars, slugVars, flowVars, stage, prod, images, file_urls, axes,
                   filemap, tout, prev, passes, tidx, trows>>

\* the optional filename -> url mapping
MergeFilemap ==
    /\ stage = "merge"
    /\ tpc = "filemap"
    /\ filemap' = (IF file_urls.exists THEN build_filemap(read_csv(file_urls)) ELSE <<>>)
    /\ tpc' = "rows"
    /\ UNCHANGED <<budgetVars, runVars, slugVars, flowVars, tmissing, stage, prod, images, file_urls, axes,
                   tout, prev, passes, tidx, trows, texc, toutcome, texit>>

\* the replacement of Image Src, then the two loops that fill merged_rows
MergeRows ==
    /\ stage = "merge"
    /\ tpc = "rows"
    /\ trows' = merged_rows(read_csv(prod), replace_src(read_csv(images), filemap))
    /\ tpc' = "write"
    /\ UNCHANGED <<budgetVars, runVars, slugVars, flowVars, tmissing, stage, prod, images, file_urls, axes,
                   filemap, tout, prev, passes, tidx, texc, toutcome, texit>>

\* out_df = pd.DataFrame(merged_rows, columns=out_cols); out_df.to_csv(args.out)
MergeWrite ==
    /\ stage = "merge"
    /\ tpc = "write"
    /\ tout' = to_csv([cols |-> out_cols(read_csv(prod)), rows |-> trows])
    /\ toutcome' = "success"
    /\ texit' = 0
    /\ tpc' = "exit"
    /\ UNCHANGED <<budgetVars, runVars, slugVars, flowVars, tmissing, stage, prod, images, file_urls, axes,
                   filemap, prev, passes, tidx, trows, texc>>

\* the product files given to merge: files written by build_shopify_csv and by
\* pod_variants_builder (under the small axes), a file with the required
\* columns only, a file lacking one of them, and no file
MergeProducts ==
    LET normalized(f) == to_csv(build_shopify_csv(read_csv(f)).df)
        expanded(f) ==
            to_csv(pod_frame(expand(read_csv(f), read_csv(f).rows[1], SmallAxes)))
        BareProducts ==
            File(<<"Title", "Handle", "Vendor", "Body (HTML)", "Status">>,
                 << [c \in REQUIRED_PRODUCT_COLS |->
                        IF c = "Body (HTML)" THEN <<>> ELSE <<"v">>] >>)
    IN {normalized(product_copy_csv(b)) :
           b \in {<<>>, <<copy_fallback(RowMat)>>,
                  <<copy_adopt(RowMat, DataOk), copy_fallback(RowBare)>>}}
           \cup {expanded(product_copy_csv(<<copy_fallback(RowMat)>>)),
                 DropCol(BareProducts, "Vendor"), BareProducts, NoFile}

\* outputs/shopify_images.csv as image_seo_prep writes it, and variants of it
ImageFiles ==
    {images_csv(image_rows(p, LLM_ALT, k)) :
        p \in {copy_fallback(RowMat), copy_fallback(RowBare)}, k \in 1..MaxImages}
        \cup {images_csv(image_rows(copy_fallback(RowMat), LLM_ALT, 1)
                            \o image_rows(copy_adopt(RowMat, DataOk), <<"M", "a", "t">>, 1)),
              File(image_columns, <<>>),
              DropCol(images_csv(image_rows(copy_fallback(RowMat), LLM_ALT, 1)),
                      "Image Alt Text"),
              NoFile}

\* the mapping file for the image file f: what make_file_urls_template writes
\* (every url blank), with urls then filled in by hand: a url, blanks only, or
\* nothing; a filename may be padded with blanks or name another file
UrlMapsFor(f) ==
    LET url_row(hdr, src, i, ch) ==
            [c \in Range(hdr) |->
                IF LowerName(c) = "new_filename"
                THEN (CASE ch = "other" -> <<"o", ".jpg">>
                        [] ch = "padded" -> <<" ">> \o src \o <<" ">>
                        [] OTHER -> src)
                ELSE (CASE ch = "blank" -> <<>>
                        [] ch = "space" -> <<" ">>
                        [] OTHER -> <<"https://cdn/", Str(i)>>)]
    IN IF ~f.exists \/ "Image Src" \notin Range(f.cols) THEN {NoFile}
       ELSE {NoFile, File(<<"new_filename">>,
                          [i \in 1..Len(f.rows) |->
                              [c \in {"new_filename"} |-> f.rows[i]["Image Src"]]])}
            \cup {File(hdr, [i \in 1..Len(f.rows) |->
                                url_row(hdr, f.rows[i]["Image Src"], i, ch[i])]) :
                     hdr \in {<<"new_filename", "url">>, <<"URL", "New_Filename">>},
                     ch \in [1..Len(f.rows) -> {"blank", "space", "url", "padded", "other"}]}

TableInit ==
    /\ stage \in {"shopify_csv", "pod_variants", "merge"}
    /\ prod \in (IF stage = "merge" THEN MergeProducts ELSE TableInputs)
    /\ images \in (IF stage = "merge" THEN ImageFiles ELSE {NoFile})
    /\ file_urls \in (IF stage = "merge" THEN UrlMapsFor(images) ELSE {NoFile})
    /\ axes \in (IF stage = "pod_variants" THEN {DefaultAxes, SmallAxes} ELSE {DefaultAxes})
    /\ TableFresh
    /\ cmd = "product_copy"
    /\ total = 0
    /\ est = EST_COST_PER_CALL
    /\ GuardFresh
    /\ RunFresh
    /\ batch = <<>>
    /\ client \in (IF stage = "shopify_csv" THEN BOOLEAN ELSE {TRUE})
    /\ imgs = 0
    /\ perProduct = 1
    /\ SlugIdle
    /\ FlowIdle

TableNext ==
    \/ ShopifyCsv
    \/ PodStart
    \/ PodRow
    \/ PodWrite
    \/ Rerun
    \/ MergeLoad
    \/ MergeFilemap
    \/ MergeRows
    \/ MergeWrite

TableSpec == TableInit /\ [][TableNext]_vars

(***************************************************************************)
(* The programs run one after another, in any order, on the artifact       *)
(* files: the kit, the catalog and the raw images may be supplied by hand. *)
(***************************************************************************)
FlowInit ==
    /\ fs \in {f \in [Paths -> {"absent", "user"}] :
                  \A p \in Paths :
                      f[p] = "user" =>
                         p \in {"outputs/desk_niche.json", "inputs/products.csv", "images_in/"}}
    /\ flast = "none"
    /\ fruns = 0
    /\ cmd = "product_copy"
    /\ total = 0
    /\ est = EST_COST_PER_CALL
    /\ GuardFresh
    /\ RunIdle
    /\ SlugIdle
    /\ TableIdle

\* one run of one program, from start to end
RunStage ==
    /\ fruns < MaxStageRuns
    /\ \E s \in Stages, k \in 0..3 :
          /\ k <= Len(program(s).writes)
          /\ fs' = [p \in Paths |-> IF p \in written(s, fs, k) THEN s ELSE fs[p]]
          /\ flast' = s
    /\ fruns' = fruns + 1
    /\ UNCHANGED <<budgetVars, runVars, slugVars, tableVars>>

FlowNext == RunStage

FlowSpec == FlowInit /\ [][FlowNext]_vars

(***************************************************************************)
(* Properties.                                                             *)
(***************************************************************************)

\* C1: spent never exceeds total by more than one call's estimate, and once a
\* reserve(1) has been rejected every later reserve(1) of the run is rejected.
C1_CeilingHolds ==
    /\ [](spent <= total + est)
    /\ [][(rejected1 /\ lastCalls' = 1) => lastResult' = "BudgetExceeded"]_vars

C1_Witness ==
    /\ rejected1
    /\ lastCalls = 1
    /\ lastResult = "BudgetExceeded"
    /\ spent > 0
    /\ spent + est > total

\* C2: reserve(callCount) computes projected = spent + est * callCount; when
\* projected > total it fails and leaves spent, total and est as they were;
\* otherwise, projected = total included, it succeeds and sets spent = projected.
C2_CheckThenCommit ==
    [][LET projected == spent + est * lastCalls' IN
       /\ total' = total
       /\ est' = est
       /\ IF projected > total
          THEN lastResult' = "BudgetExceeded" /\ spent' = spent
          ELSE lastResult' = "ok" /\ spent' = projected]_vars

C2_Witness ==
    /\ lastResult = "ok"
    /\ lastCalls = 2
    /\ spent = total
    /\ spent > 2 * est

\* C3: spent never decreases, and a guarded gateway call is booked before its
\* request is issued: spent >= est * (requests issued so far), also after a
\* request that failed.
C3_BookedBeforeIssued ==
    /\ [](cmd \in GuardedCmds => spent >= est * requests)
    /\ [][spent' >= spent]_vars

C3_Witness ==
    /\ cmd = "product_copy"
    /\ pc = "raise"
    /\ exc = "Timeout"
    /\ requests = 2
    /\ spent = 2 * est

\* C4: a rejected reservation fails the gateway call before any request and
\* before the throttle delay; with ceiling 0.02 and estimate 0.015, of two
\* sequential calls the first is issued, the second rejected, one request in all.
C4_RejectedBeforeRequest ==
    /\ (cmd \in GuardedCmds /\ pc = "raise" /\ exc = "BudgetExceeded")
          => (requests = reserved /\ sleeps = reserved)
    /\ (cmd = "product_copy" /\ total = 20 /\ est = 15 /\ Len(batch) = 2
           /\ pc \in {"write", "exit"})
          => (requests = 1 /\ sleeps = 1 /\ reserved = 1 /\ rejectedAt = 2)

C4_Witness ==
    /\ cmd = "product_copy"
    /\ total = 20
    /\ est = 15
    /\ Len(batch) = 2
    /\ pc = "exit"
    /\ requests = 1
    /\ rejectedAt = 2

\* C5: no chat-completion request is issued, in any stage, without a
\* successful reservation preceding it.
C5_EveryRequestReserved == requests <= reserved

\* C6: once a reservation is rejected the run aborts: the row it was rejected
\* for and the rows after it are not processed, and the run does not end in
\* success.
C6_BudgetExceededAborts ==
    rejectedAt # 0 => (Len(rows) < rejectedAt /\ outcome # "success")

\* C7: generate_product_copy produces one output row per input row, in input
\* order (the SKU and price of output row i are those of input row i),
\* whatever gateway calls fail.
C7_RowCountPreserved ==
    cmd = "product_copy" =>
        /\ pc \in {"book", "sleep", "request", "parse", "return", "raise"}
              => Len(rows) = idx - 1
        /\ pc \in {"write", "exit"} => Len(rows) = Len(batch)
        /\ \A i \in 1..Len(rows) :
              /\ rows[i].VariantSKU = Strip(batch[i].sku)
              /\ rows[i].VariantPrice = batch[i].price

C7_Witness ==
    /\ cmd = "product_copy"
    /\ pc = "exit"
    /\ Len(batch) = 2
    /\ batch[1] # batch[2]
    /\ requests = 2
    /\ Len(rows) = 2
    /\ \A i \in 1..2 : Take(rows[i].Body, 1) = FB_HEAD

(***************************************************************************)
(* The fallback body stated from the positions of the commas of the        *)
(* features text: the items are the spans between commas, an item is       *)
(* blank when it holds no non-space atom, and an item is listed without    *)
(* its surrounding spaces.                                                 *)
(***************************************************************************)
Commas(f) == {i \in 1..Len(f) : f[i] = ","}

ItemEnd(f, a) ==
    IF \E p \in Commas(f) : p >= a
    THEN (CHOOSE p \in Commas(f) : p >= a /\ \A q \in Commas(f) : q >= a => p <= q) - 1
    ELSE Len(f)

Inked(f, a) == {i \in a..ItemEnd(f, a) : ~IsSpace(f[i])}

ItemStarts(f) == {a \in {1} \cup {p + 1 : p \in Commas(f)} : Inked(f, a) # {}}

ItemText(f, a) ==
    LET lo == CHOOSE i \in Inked(f, a) : \A j \in Inked(f, a) : i <= j
        hi == CHOOSE i \in Inked(f, a) : \A j \in Inked(f, a) : i >= j
    IN SubSeq(f, lo, hi)

KthItemStart(f, k) ==
    CHOOSE a \in ItemStarts(f) : Cardinality({b \in ItemStarts(f) : b < a}) = k - 1

RECURSIVE ExpectedBullets(_, _)
ExpectedBullets(f, k) ==
    IF k > Cardinality(ItemStarts(f)) THEN <<>>
    ELSE <<"<li>">> \o ItemText(f, KthItemStart(f, k)) \o <<"</li>">>
            \o ExpectedBullets(f, k + 1)

ExpectedFallbackBody(r) ==
    <<"<h3>Highlights</h3><ul>">> \o ExpectedBullets(r.features, 1)
        \o <<"</ul><h3>Details</h3><p>">> \o Strip(r.materials)
        \o <<"</p><h3>Shipping & Returns</h3><p>30-day returns. Tracked shipping.</p>">>

\* the row appended by this step, for the input row being processed
Appended == rows'[Len(rows')]
AppendsOne == Len(rows') = Len(rows) + 1 /\ SubSeq(rows', 1, Len(rows)) = rows
OnFailure == cmd = "product_copy" /\ pc = "raise"
OnSuccess == cmd = "product_copy" /\ pc = "return"

WellTypedTitleAndBody == data.title_seo.t = "str" /\ data.body_html.t = "str"

AdoptsResponse ==
    /\ AppendsOne
    /\ Appended.Title = Take(data.title_seo.s, TITLE_MAX)
    /\ Len(Appended.Title) <= TITLE_MAX
    /\ Appended.Body = data.body_html.s
    /\ data.tags.t = "list" => Appended.Tags = Join(<<",", " ">>, data.tags.l)
    /\ data.tags.t \in {"str", "null"} => Appended.Tags = Strip(batch[idx].tags)

C10_SlugIdempotentNonEmpty ==
    \A i \in 1..Len(s_out) :
        /\ s_out[i].shopify2 = s_out[i].shopify
        /\ s_out[i].pod2 = s_out[i].pod
        /\ s_out[i].image2 = s_out[i].image
        /\ s_out[i].shopify # <<>>
        /\ s_out[i].pod # <<>>
        /\ s_out[i].image # <<>>

\* C11: for every title, the handle derived by the Schema Normalizer, by the
\* Variant Expander, by image preparation and by the optimizer is the same
\* value.
C11_HandleAgreesAcrossStages ==
    \A i \in 1..Len(s_out) :
        /\ s_out[i].pod = s_out[i].shopify
        /\ s_out[i].img_handle = s_out[i].shopify
        /\ s_out[i].opt_handle = s_out[i].shopify

C11_Witness ==
    /\ s_in = <<" ", "B", "!">>
    /\ s_out # <<>>
    /\ s_out[1].shopify = <<"b", "!">>
    /\ s_out[1].img_handle = <<"b", "!">>
    /\ s_out[1].image # s_out[1].img_handle

\* C12: build_shopify_csv applied to the file it wrote succeeds and writes the
\* same file again: the Handle and every column value of every row are
\* unchanged.
C12_NormalizeIdempotent ==
    (stage = "shopify_csv" /\ passes = 1 /\ tpc = "exit") =>
        (toutcome = "success" /\ tout = prev)

C12_Witness ==
    /\ stage = "shopify_csv"
    /\ passes = 1
    /\ tpc = "exit"
    /\ Len(tout.rows) = 2
    /\ Len(tout.rows[1]["Title"]) = 142
    /\ Len(tout.rows[1]["SEO Description"]) = 141
    /\ tout.rows[2]["Title"] = <<" ", "D", "e", "s", "k", " ", " ", "M", "a", "t", "!", " ">>
    /\ tout.rows[2]["Handle"] = <<"d", "e", "s", "k", "-", "m", "a", "t", "!">>
    /\ tout.rows[2]["Vendor"] = <<"Aceru Studio">>

\* the default the spec declares for a target column the input lacks
DeclaredDefault(c) ==
    CASE c = "Vendor" -> <<"Aceru Studio">>
      [] c \in {"Published", "Variant Requires Shipping", "Variant Taxable"} -> <<"True">>
      [] c = "Option1 Name" -> <<"Title">>
      [] c = "Option1 Value" -> <<"Default Title">>
      [] c = "Variant Inventory Qty" -> <<"10">>
      [] c = "Variant Inventory Policy" -> <<"deny">>
      [] c = "Variant Fulfillment Service" -> <<"manual">>
      [] c = "Variant Price" -> <<"19.99">>
      [] c = "Gift Card" -> <<"FALSE">>
      [] c = "Status" -> <<"active">>
      [] OTHER -> <<>>

\* C13: the Schema Normalizer fails for a missing column only when Title is
\* absent; a run that succeeds has filled every optional column its input
\* lacks with that column's default.
C13_OnlyTitleRequired ==
    /\ (stage = "shopify_csv" /\ tpc = "exit" /\ texc = "KeyError")
          => "Title" \notin Range(prod.cols)
    /\ (stage = "shopify_csv" /\ tpc = "exit" /\ passes = 0 /\ toutcome = "success"
           /\ tout.exists)
          => \A i \in 1..Len(tout.rows) :
                \A c \in Range(required) \ (Range(prod.cols)
                                               \cup {"Handle", "SEO Title", "SEO Description"}) :
                    tout.rows[i][c] = DeclaredDefault(c)

(***************************************************************************)
(* The variant rows of a run, stated per base row: block b holds the rows  *)
(* emitted for the b-th base row.                                          *)
(***************************************************************************)
PerBase == Len(axes.colors) * Len(axes.sizes)
PodRunning == stage = "pod_variants" /\ prod.exists /\ texc = "none"
PodDone == PodRunning /\ tpc \in {"write", "exit"}
BlockRow(b, k) == trows[(b - 1) * PerBase + k]
BaseRow(b) == read_csv(prod).rows[b]
BaseTitle(b) == IF BaseRow(b)["Title"] = NaN THEN <<"n", "a", "n">> ELSE BaseRow(b)["Title"]
ParentFields ==
    {"Handle", "Title", "Body (HTML)", "Vendor", "Type", "Tags", "Published",
     "SEO Title", "SEO Description"}
Populated(row) ==
    /\ row["Title"] # <<>>
    /\ row["Type"] # <<>>
    /\ row["Published"] # <<>>
    /\ row["SEO Title"] # <<>>
    /\ row["SEO Description"] # <<>>
Initial(color) ==
    CASE Head(color) = "b" -> "B"
      [] Head(color) = "w" -> "W"
      [] Head(color) = "n" -> "N"
ExpectedSku(color, size) == axes.prefix \o <<"-", Initial(color)>> \o size
ExpectedPrice(size) == IF Len(size) = 1 THEN <<"24.90">> ELSE <<"26.90">>

\* C14: for every base row the Variant Expander emits |COLORS| x |SIZES| rows,
\* one per (color, size) combination, none repeated or missing, and exactly
\* one of them, the first, has the shared fields populated (with the base
\* row's title and body).
C14_OnePerCombination ==
    /\ (PodRunning /\ tpc = "row") => Len(trows) = (tidx - 1) * PerBase
    /\ PodDone =>
          /\ Len(trows) = Len(prod.rows) * PerBase
          /\ \A b \in 1..Len(prod.rows) :
                /\ \A ci \in 1..Len(axes.colors), si \in 1..Len(axes.sizes) :
                      Cardinality({k \in 1..PerBase :
                                      /\ BlockRow(b, k)["Option1 Value"] = axes.colors[ci]
                                      /\ BlockRow(b, k)["Option2 Value"] = axes.sizes[si]}) = 1
                /\ {k \in 1..PerBase : Populated(BlockRow(b, k))} = {1}
                /\ BlockRow(b, 1)["Title"] = BaseTitle(b)
                /\ BlockRow(b, 1)["Body (HTML)"] = BaseRow(b)["Body (HTML)"]

C14_Witness ==
    /\ PodDone
    /\ tpc = "exit"
    /\ axes = DefaultAxes
    /\ Len(prod.rows) = 2
    /\ Len(trows) = 30
    /\ trows[1]["Title"] = <<"M", "a", "t">>
    /\ trows[16]["Title"] = <<"D", "e", "s", "k", " ", "M", "a", "t">>
    /\ trows[30]["Option1 Value"] = <<"n", "a", "v", "y">>
    /\ trows[30]["Option2 Value"] = <<"2", "X", "L">>

\* C15 as stated: every row after the first row of a base product carries
\* empty strings in handle, title, body, vendor, tags, status and SEO fields,
\* and every row carries its own option values, price and SKU.
OwnVariantFields(b, k) ==
    \E ci \in 1..Len(axes.colors), si \in 1..Len(axes.sizes) :
        /\ k = (ci - 1) * Len(axes.sizes) + si
        /\ BlockRow(b, k)["Option1 Name"] = <<"Color">>
        /\ BlockRow(b, k)["Option1 Value"] = axes.colors[ci]
        /\ BlockRow(b, k)["Option2 Name"] = <<"Size">>
        /\ BlockRow(b, k)["Option2 Value"] = axes.sizes[si]
        /\ BlockRow(b, k)["Variant SKU"] = ExpectedSku(axes.colors[ci], axes.sizes[si])
        /\ BlockRow(b, k)["Variant Price"] = ExpectedPrice(axes.sizes[si])

C16_CartesianOrder ==
    /\ PodDone =>
          \A b \in 1..Len(prod.rows) :
              \A ci \in 1..Len(axes.colors), si \in 1..Len(axes.sizes) :
                  LET row == BlockRow(b, (ci - 1) * Len(axes.sizes) + si) IN
                  /\ row["Option1 Value"] = axes.colors[ci]
                  /\ row["Option2 Value"] = axes.sizes[si]
                  /\ row["Variant SKU"] = ExpectedSku(axes.colors[ci], axes.sizes[si])
    /\ (PodDone /\ axes.colors = << <<"b", "l", "a", "c", "k">>, <<"w", "h", "i", "t", "e">> >>
           /\ axes.sizes = << <<"S">>, <<"M">> >> /\ Len(prod.rows) = 1)
          => /\ [k \in 1..Len(trows) |-> trows[k]["Variant SKU"]]
                   = << <<"T", "E", "E", "-", "B", "S">>, <<"T", "E", "E", "-", "B", "M">>,
                        <<"T", "E", "E", "-", "W", "S">>, <<"T", "E", "E", "-", "W", "M">> >>
             /\ {k \in 1..Len(trows) : trows[k]["Title"] # <<>>} = {1}
    /\ (PodDone /\ tpc = "exit" /\ passes = 1) => tout = prev

C16_Witness ==
    /\ PodDone
    /\ tpc = "exit"
    /\ passes = 1
    /\ axes = SmallAxes
    /\ Len(prod.rows) = 1
    /\ Len(tout.rows) = 4
    /\ tout.rows[1]["Title"] = <<"D", "e", "s", "k", " ", "M", "a", "t">>
    /\ tout.rows[3]["Variant SKU"] = <<"T", "E", "E", "-", "W", "S">>

\* C17: no two variant rows emitted in one run carry the same Variant SKU.
C17_SkusUnique ==
    PodRunning =>
        \A i, j \in 1..Len(trows) :
            i # j => trows[i]["Variant SKU"] # trows[j]["Variant SKU"]

(***************************************************************************)
(* The merge, stated on the data frames merge reads: the product rows and  *)
(* the image rows as pd.read_csv returns them.                             *)
(***************************************************************************)
MergeBuilt == stage = "merge" /\ tpc \in {"write", "exit"} /\ texc = "none"
ProdFrame == read_csv(prod)
ImageFrame == read_csv(images)
NProd == Len(prod.rows)
NImg == Len(images.rows)

\* C18: the merge output is the product rows in input order followed by one
\* row per image record in input order: Len(productRows) + Len(imageRows)
\* rows, no image row before a product row.
C18_ProductsThenImages ==
    MergeBuilt =>
        /\ Len(trows) = NProd + NImg
        /\ \A i \in 1..NProd :
              /\ trows[i]["Title"] = ProdFrame.rows[i]["Title"]
              /\ trows[i]["Body (HTML)"] = ProdFrame.rows[i]["Body (HTML)"]
              /\ trows[i]["Vendor"] = ProdFrame.rows[i]["Vendor"]
        /\ \A j \in 1..NImg :
              /\ trows[NProd + j]["Image Position"] = ImageFrame.rows[j]["Image Position"]
              /\ trows[NProd + j]["Image Alt Text"] = ImageFrame.rows[j]["Image Alt Text"]
              /\ trows[NProd + j]["Title"] = <<>>
              /\ trows[NProd + j]["Vendor"] = <<>>
        /\ tpc = "exit" => Len(tout.rows) = NProd + NImg

C18_Witness ==
    /\ MergeBuilt
    /\ tpc = "exit"
    /\ NProd = 2
    /\ NImg = 2
    /\ trows[1]["Title"] = <<"M", "a", "t">>
    /\ trows[2]["Title"] = NaN
    /\ trows[3]["Image Position"] = <<"1">>
    /\ trows[4]["Image Position"] = <<"2">>
    /\ trows[3]["Handle"] = <<"d", "e", "s", "k", "-", "m", "a", "t">>

\* C19: in the merge output every product row keeps all its column values,
\* in the original column order extended by the image columns it lacks, which
\* are empty; every image row has Handle, Image Src, Image Alt Text and Image
\* Position set from its image record and every other column empty.
ExpectedOutCols ==
    prod.cols
        \o SelectSeq(<<"Image Src", "Image Alt Text", "Image Position">>,
                     LAMBDA c : \A i \in 1..Len(prod.cols) : prod.cols[i] # c)

MapFrame == read_csv(file_urls)
FnCol == lower_cols(MapFrame, "new_filename")
UrlCol == lower_cols(MapFrame, "url")
BlankCell(x) == x = NaN \/ \A i \in 1..Len(x) : IsSpace(x[i])
Resolving(src) ==
    IF ~file_urls.exists \/ FnCol = "(absent)" \/ UrlCol = "(absent)" THEN {}
    ELSE {i \in 1..Len(MapFrame.rows) :
             /\ ~BlankCell(MapFrame.rows[i][FnCol])
             /\ ~BlankCell(MapFrame.rows[i][UrlCol])
             /\ ~BlankCell(src)
             /\ Strip(MapFrame.rows[i][FnCol]) = Strip(src)}

C20_UnresolvedPassThrough ==
    /\ (stage = "merge" /\ tpc = "rows") => texc = "none"
    /\ MergeBuilt =>
          \A j \in 1..NImg :
              LET src == ImageFrame.rows[j]["Image Src"]
                  out == trows[NProd + j]["Image Src"]
              IN IF Resolving(src) = {}
                 THEN out = src
                 ELSE \E i \in Resolving(src) : out = Strip(MapFrame.rows[i][UrlCol])

\* C21: in the image rows image_seo_prep collects, the rows of one handle
\* carry, in order, the positions 1, 2, 3, ... without a gap, and there are
\* at most --per-product of them, also when two product rows give the same
\* handle.
SameHandle(h) == {i \in 1..Len(rows) : rows[i].Handle = h}

C21_PositionsPerHandle ==
    cmd = "image_seo" =>
        \A h \in {rows[i].Handle : i \in 1..Len(rows)} :
            /\ \A i \in SameHandle(h) :
                  rows[i].Position = Cardinality({j \in SameHandle(h) : j <= i})
            /\ Cardinality(SameHandle(h)) <= perProduct

\* C22: every JSON-mode gateway function returns the strictly parsed response
\* when the raw text is valid JSON; otherwise it returns what the span from
\* the first "{" to the last "}" of the raw text parses to; it fails, with the
\* decoder's error, only when there is no such span or the span is no JSON.
FirstOpen(t) == CHOOSE i \in 1..Len(t) : t[i] = "{" /\ \A j \in 1..(i - 1) : t[j] # "{"
LastClose(t) == CHOOSE i \in 1..Len(t) : t[i] = "}" /\ \A j \in (i + 1)..Len(t) : t[j] # "}"
HasSpan(t) ==
    /\ \E i \in 1..Len(t) : t[i] = "{"
    /\ \E i \in 1..Len(t) : t[i] = "}"
    /\ FirstOpen(t) <= LastClose(t)
Salvaged(c) ==
    IF HasSpan(c.raw)
    THEN json_decode(SubSeq(c.raw, FirstOpen(c.raw), LastClose(c.raw)), c.obj)
    ELSE json_decode(<<>>, c.obj)
Expected(c) == IF ~json_decode(c.raw, c.obj).raised THEN json_decode(c.raw, c.obj) ELSE Salvaged(c)
ParseStep == pc \in {"parse", "opt_parse"} /\ pc' # pc

C22_SalvageInEveryGateway ==
    [][ParseStep =>
          IF Expected(content).raised
          THEN pc' = "raise" /\ exc' = "JSONDecodeError"
          ELSE pc' \in {"return", "opt_row"} /\ data' = Expected(content).obj]_vars

\* C23: when a run of a budget-guarded program ends, the line it prints last
\* reports the spend as spent / ceiling, after a fatal error as well as after
\* a successful run.
C23_SpendReportedAtRunEnd ==
    (cmd \in GuardedCmds /\ pc = "exit") => report = <<spent, total>>

\* C24: a table stage that met a fatal condition (no API key, a missing input
\* file, a missing required column) ends with a diagnostic, without the
\* success line, and with an exit status other than zero.
FatalCondition ==
    \/ texc \in {"SystemExit", "FileNotFoundError", "ValueError", "KeyError"}
    \/ (client /\ ~prod.exists)

C24_FatalExitsNonZero ==
    (stage # "none" /\ tpc = "exit" /\ FatalCondition) => (toutcome = "fatal" /\ texit > 0)

\* C25: a run of a program changes no file but the outputs the program
\* declares (its --out defaults and OUT_* constants): not its input, not an
\* earlier program's output, whether the run completes, fails or is
\* interrupted.  (Original statement: not even a missing input is created.)
Declared(s) ==
    CASE s = "seed_from_kit" -> {"inputs/products.csv"}
      [] s = "niche_kit" -> {"outputs/niche_kit.json"}
      [] s = "ad_creatives" -> {"outputs/ad_creatives.json"}
      [] s = "product_copy" -> {"outputs/product_copy.csv"}
      [] s = "shopify_csv" -> {"outputs/shopify_import.csv"}
      [] s = "pod_variants" -> {"outputs/shopify_import_pod.csv"}
      [] s = "optimizer" -> {"outputs/product_optimized.csv", "outputs/experiments_log.csv"}
      [] s = "image_seo" ->
             {"outputs/*.img", "outputs/image_mapping.csv", "outputs/shopify_images.csv"}
      [] s = "make_file_urls" -> {"outputs/file_urls.csv"}
      [] s = "merge" -> {"outputs/shopify_import_with_images.csv"}
      [] OTHER -> {}

Changed == {p \in Paths : fs'[p] # fs[p]}

C25_WritesOnlyDeclaredOutput ==
    [][\A p \in Changed : p \in Declared(flast')]_vars

\* C25 as amended: the one file a run writes outside its declared outputs is
\* the sample catalog product_copy creates when inputs/products.csv does not
\* exist; no existing input or earlier output is ever changed.
C25_WritesOnlyDeclaredOutputOrSample ==
    [][\A p \in Changed :
          \/ p \in Declared(flast')
          \/ (flast' = "product_copy" /\ p = "inputs/products.csv" /\ fs[p] = "absent")]_vars

C25_Witness ==
    /\ fs["inputs/products.csv"] = "product_copy"
    /\ fs["outputs/product_copy.csv"] = "product_copy"
    /\ fs["outputs/shopify_import.csv"] = "shopify_csv"
    /\ fs["outputs/shopify_import_with_images.csv"] = "absent"
    /\ flast = "merge"

\* C26: generate_product_copy issues at most one chat-completion request per
\* catalog row, a failed request included: at every point of a run the
\* requests issued so far are no more than the rows begun, and so no more
\* than the rows of the batch.
C26_OneRequestPerRow ==
    cmd = "product_copy" => (requests <= idx /\ idx <= Len(batch))

C26_Witness ==
    /\ cmd = "product_copy"
    /\ pc = "raise"
    /\ exc \in ProviderErrors
    /\ idx = 2
    /\ requests = 2
    /\ rows = <<copy_fallback(batch[1])>>

\* C27: a merge whose product file or image file lacks a required column
\* builds nothing and writes nothing: it ends in the ValueError that names
\* the missing columns of the table checked first (the products, then the
\* images), with no filemap, no merged row and no output file at any point.
LackingProd == {c \in REQUIRED_PRODUCT_COLS : \A i \in 1..Len(prod.cols) : prod.cols[i] # c}
LackingImg == {c \in IMAGE_COLS : \A i \in 1..Len(images.cols) : images.cols[i] # c}
SchemaViolated ==
    /\ stage = "merge"
    /\ prod.exists
    /\ LackingProd # {} \/ (images.exists /\ LackingImg # {})

C27_MergeValidatesFirst ==
    SchemaViolated =>
        /\ tpc \in {"main", "exit"}
        /\ filemap = <<>> /\ trows = <<>> /\ tout = NoFile
        /\ tpc = "exit" =>
              /\ texc = "ValueError"
              /\ toutcome = "fatal"
              /\ tmissing = (IF LackingProd # {} THEN LackingProd ELSE LackingImg)

C27_Witness ==
    /\ SchemaViolated
    /\ tpc = "exit"
    /\ LackingProd = {}
    /\ tmissing = {"Image Alt Text"}
    /\ tout = NoFile

\* C28: in generate_product_copy, from the first rejected reservation on, no
\* request is issued and spent does not change; every row appended from then
\* on, the rejected row's included, is the fallback row of its input row; and
\* the run ends with one output row per input row and the success line.
AfterRejection == cmd = "product_copy" /\ rejectedAt # 0

C28_FallbackAfterRejection ==
    [][/\ AfterRejection =>
             /\ requests' = requests
             /\ spent' = spent
             /\ rows' # rows => (AppendsOne /\ Appended = copy_fallback(batch[idx]))
       /\ (cmd = "product_copy" /\ rejectedAt' # 0 /\ pc' = "exit") =>
             /\ Len(rows') = Len(batch)
             /\ outcome' = "success"
             /\ \A i \in rejectedAt'..Len(batch) : rows'[i] = copy_fallback(batch[i])]_vars

C28_Witness ==
    /\ AfterRejection
    /\ pc = "exit"
    /\ Len(batch) = 2
    /\ rejectedAt = 1
    /\ requests = 0
    /\ spent = 0
    /\ rows = <<copy_fallback(batch[1]), copy_fallback(batch[2])>>

====
